---- MODULE Spec2Model ----
(***************************************************************************)
(* Model of esbuild-plugin-vue-go.                                         *)
(*                                                                         *)
(* Part 1: the process-wide bytecode cache of the QuickJS compiler bridge  *)
(*         (getCompilerScriptBytecode / loadCompilerModule, sync.Once).    *)
(* Part 2: the Vue SFC resolve/load pipeline of the plugin (vue.go).       *)
(***************************************************************************)
EXTENDS Integers, Sequences, FiniteSets, TLC

VARIABLES
    \* ---- Part 1: bytecode cache ----
    compilerScript,          \* the embedded compiler source (its kind)
    once,                    \* sync.Once: [done, locked]
    compilerScriptBytecode,  \* the package-level cache slot
    call,                    \* per caller: position and locals
    compileCount,            \* number of jse.Ctx.Compile invocations so far
    faulty,                  \* engines whose context throws on any evaluation
    alive,                   \* FALSE once an unrecovered panic ended the process
    calls,                   \* number of calls started so far
    \* ---- Part 2: Vue SFC pipeline ----
    isSSR,                   \* import.meta.env.SSR of the build options
    onVueResolveProcessors,  \* number of registered resolve processors
    heap,                    \* the plugin-data maps, by reference
    entry,                   \* the latest main-entry load and its result
    res,                     \* the latest resolve request and its result
    out,                     \* the latest sub-resource load and its result
    \* ---- Part 3: plugin construction, build life cycle, loaders ----
    opts,                    \* the options the plugin's callbacks close over
    plugin,                  \* the outcome of NewPlugin
    build,                   \* the build's phase and its processor log
    sass,                    \* the latest Sass load and its result
    vueSource,               \* the latest readVueSource call and its result
    fsCall,                  \* the latest call of a compilerFs function
    \* ---- Part 4: concurrent main-entry loads ----
    loads,                   \* per component file: the load's position and locals
    pdHeap,                  \* the plugin-data maps made by the loads, by reference
    \* ---- Part 5: several resolutions of one component's sub-resources ----
    earlier,                 \* the resolution results returned before the latest
    \* ---- Part 6: the guest-side Sass module ----
    sasslocation,            \* the module variable sasslocation of sass.ts
    render                   \* the latest renderSync call: position and locals

cacheVars == <<compilerScript, once, compilerScriptBytecode, call,
               compileCount, faulty, alive, calls>>

vueVars == <<isSSR, onVueResolveProcessors, heap, entry, res, out>>

hostVars == <<opts, plugin, build, sass, vueSource, fsCall>>

loadVars == <<loads, pdHeap>>

subVars == <<earlier>>

guestVars == <<sasslocation, render>>

vars == <<cacheVars, vueVars, hostVars, loadVars, subVars, guestVars>>

-----------------------------------------------------------------------------
(* Bounds *)
NumCallers == 2
NumEngines == 2
MaxCalls   == 2
MaxStyles  == 2
MaxProcs   == 2
WideStyles == 11
MaxResolves == 2
MaxTips    == 2
MaxLoads   == 2
MaxOpts    == 3

Callers == 1..NumCallers
Engines == 1..NumEngines

-----------------------------------------------------------------------------
(* Part 1: bytecode cache *)

Nil == <<>>

\* A JavaScript value that is undefined or a string; a string is the
\* sequence of its tokens.
Undefined == [def |-> FALSE, text |-> <<>>]
Str(text) == [def |-> TRUE, text |-> text]

\* No renderSync call has been made.
IdleRender == [pc |-> "idle", options |-> [sasslocation |-> Undefined,
                                          data |-> ""],
               canon |-> <<>>, count |-> 0]

\* The kinds of embedded source: one that compiles and runs, one that
\* compiles but throws when evaluated, one that does not compile.
Scripts == {"valid", "throws", "invalid"}

\* jse.Ctx.Compile: an error for a source with a syntax error, otherwise the
\* (non-empty) bytecode of that source.
CompileFails(src) == src = "invalid"
Compile(src) == <<"bytecode", src>>

\* jse.Ctx.EvalBytecode followed by ret.IsException(): the evaluation throws
\* when the buffer holds no bytecode, when the compiled program itself throws,
\* or when this engine's context cannot run it.
EvalBytecodeThrows(bytecode, engine) ==
    \/ bytecode = Nil
    \/ bytecode = Compile("throws")
    \/ engine \in faulty

\* ran: this call ran the initializer; failedBefore: some load had already
\* failed when this call started (both only record history).
IdleCall == [pc |-> "idle", kind |-> "none", engine |-> 0,
             result |-> Nil, evaluated |-> Nil, err |-> "none",
             ran |-> FALSE, failedBefore |-> FALSE]

InitCache ==
    /\ compilerScript \in Scripts
    /\ once = [done |-> FALSE, locked |-> FALSE]
    /\ compilerScriptBytecode = Nil
    /\ call = [c \in Callers |-> IdleCall]
    /\ compileCount = 0
    /\ faulty \in SUBSET Engines
    /\ alive = TRUE
    /\ calls = 0
    /\ isSSR = FALSE
    /\ onVueResolveProcessors = 0
    /\ heap = <<>>
    /\ entry = [status |-> "idle"]
    /\ res = [status |-> "idle"]
    /\ out = [kind |-> "idle"]
    /\ opts = [name |-> "idle"]
    /\ plugin = [status |-> "idle"]
    /\ build = [phase |-> "idle"]
    /\ sass = [status |-> "idle"]
    /\ vueSource = [status |-> "idle"]
    /\ fsCall = [status |-> "idle"]
    /\ loads = <<>>
    /\ pdHeap = <<>>
    /\ earlier = <<>>
    /\ sasslocation = Undefined
    /\ render = IdleRender

\* A goroutine enters getCompilerScriptBytecode directly (kind "get") or
\* through loadCompilerModule (kind "load") with some engine.
StartCall(c, kind, e) ==
    /\ alive
    /\ call[c].pc \in {"idle", "returned", "loaded", "loadErr", "panicked"}
    /\ calls < MaxCalls
    /\ call' = [call EXCEPT ![c] =
                   [IdleCall EXCEPT !.pc = "start", !.kind = kind, !.engine = e,
                                    !.failedBefore =
                                        \E d \in Callers : call[d].pc = "loadErr"]]
    /\ calls' = calls + 1
    /\ UNCHANGED <<compilerScript, once, compilerScriptBytecode,
                   compileCount, faulty, alive>>
    /\ UNCHANGED <<vueVars, hostVars, loadVars, subVars, guestVars>>

\* once.Do, fast path: the done flag is read without the lock.
OnceFastPath(c) ==
    /\ alive
    /\ call[c].pc = "start"
    /\ call' = [call EXCEPT ![c].pc = IF once.done THEN "ret" ELSE "wantLock"]
    /\ UNCHANGED <<compilerScript, once, compilerScriptBytecode,
                   compileCount, faulty, alive, calls>>
    /\ UNCHANGED <<vueVars, hostVars, loadVars, subVars, guestVars>>

\* Variant: the slow path does not re-check done under the mutex.
OnceSlowPath_NoRecheck(c) ==
    /\ alive
    /\ call[c].pc = "wantLock"
    /\ ~once.locked
    /\ call' = [call EXCEPT ![c].pc = "compiling", ![c].ran = TRUE]
    /\ once' = [once EXCEPT !.locked = TRUE]
    /\ compileCount' = compileCount + 1
    /\ UNCHANGED <<compilerScript, compilerScriptBytecode, faulty, alive, calls>>
    /\ UNCHANGED <<vueVars, hostVars, loadVars, subVars, guestVars>>

\* once.Do, slow path: take the mutex, re-check done; the initializer runs
\* under the mutex only when done is still unset.
OnceSlowPath(c) ==
    /\ alive
    /\ call[c].pc = "wantLock"
    /\ ~once.locked
    /\ IF once.done
          THEN /\ call' = [call EXCEPT ![c].pc = "ret"]
               /\ UNCHANGED <<once, compileCount>>
          ELSE /\ call' = [call EXCEPT ![c].pc = "compiling", ![c].ran = TRUE]
               /\ once' = [once EXCEPT !.locked = TRUE]
               /\ compileCount' = compileCount + 1
    /\ UNCHANGED <<compilerScript, compilerScriptBytecode, faulty, alive, calls>>
    /\ UNCHANGED <<vueVars, hostVars, loadVars, subVars, guestVars>>

\* The initializer: Compile succeeded, the slot is written, the deferred
\* done.Store(1) and Unlock run.
CompileDone(c) ==
    /\ alive
    /\ call[c].pc = "compiling"
    /\ ~CompileFails(compilerScript)
    /\ compilerScriptBytecode' = Compile(compilerScript)
    /\ once' = [done |-> TRUE, locked |-> FALSE]
    /\ call' = [call EXCEPT ![c].pc = "ret"]
    /\ UNCHANGED <<compilerScript, compileCount, faulty, alive, calls>>
    /\ UNCHANGED <<vueVars, hostVars, loadVars, subVars, guestVars>>

\* Variant: a failed compilation leaves the guard unset, so that the next
\* caller compiles again.
CompilePanic_Retry(c) ==
    /\ alive
    /\ call[c].pc = "compiling"
    /\ CompileFails(compilerScript)
    /\ once' = [done |-> FALSE, locked |-> FALSE]
    /\ call' = [call EXCEPT ![c].pc = "panicked", ![c].err = "panic"]
    /\ \E recovered \in BOOLEAN : alive' = recovered
    /\ UNCHANGED <<compilerScript, compilerScriptBytecode, compileCount,
                   faulty, calls>>
    /\ UNCHANGED <<vueVars, hostVars, loadVars, subVars, guestVars>>

\* The initializer: Compile failed and the initializer panics.  The deferred
\* done.Store(1) and Unlock of sync.Once still run; the panic then unwinds
\* the caller.  It is either recovered by a caller up the stack (the process
\* goes on) or it ends the process.
CompilePanic(c) ==
    /\ alive
    /\ call[c].pc = "compiling"
    /\ CompileFails(compilerScript)
    /\ once' = [done |-> TRUE, locked |-> FALSE]
    /\ call' = [call EXCEPT ![c].pc = "panicked", ![c].err = "panic"]
    /\ \E recovered \in BOOLEAN : alive' = recovered
    /\ UNCHANGED <<compilerScript, compilerScriptBytecode, compileCount,
                   faulty, calls>>
    /\ UNCHANGED <<vueVars, hostVars, loadVars, subVars, guestVars>>

\* return compilerScriptBytecode
ReturnBytecode(c) ==
    /\ alive
    /\ call[c].pc = "ret"
    /\ call' = [call EXCEPT ![c].result = compilerScriptBytecode,
                            ![c].pc = IF call[c].kind = "load" THEN "eval"
                                                               ELSE "returned"]
    /\ UNCHANGED <<compilerScript, once, compilerScriptBytecode,
                   compileCount, faulty, alive, calls>>
    /\ UNCHANGED <<vueVars, hostVars, loadVars, subVars, guestVars>>

\* Variant: an exception during evaluation drops the cached bytecode.
EvalBytecode_Invalidate(c) ==
    /\ alive
    /\ call[c].pc = "eval"
    /\ LET throws == EvalBytecodeThrows(call[c].result, call[c].engine)
       IN  /\ call' = [call EXCEPT ![c].evaluated = call[c].result,
                                   ![c].pc = IF throws THEN "loadErr" ELSE "loaded",
                                   ![c].err = IF throws THEN "exception" ELSE "none"]
           /\ compilerScriptBytecode' = IF throws THEN Nil
                                                  ELSE compilerScriptBytecode
    /\ UNCHANGED <<compilerScript, once, compileCount, faulty, alive, calls>>
    /\ UNCHANGED <<vueVars, hostVars, loadVars, subVars, guestVars>>

\* loadCompilerModule: evaluate the bytecode it was handed in its own engine
\* and turn an exception into the returned error.
EvalBytecode(c) ==
    /\ alive
    /\ call[c].pc = "eval"
    /\ LET throws == EvalBytecodeThrows(call[c].result, call[c].engine)
       IN  call' = [call EXCEPT ![c].evaluated = call[c].result,
                                ![c].pc = IF throws THEN "loadErr" ELSE "loaded",
                                ![c].err = IF throws THEN "exception" ELSE "none"]
    /\ UNCHANGED <<compilerScript, once, compilerScriptBytecode,
                   compileCount, faulty, alive, calls>>
    /\ UNCHANGED <<vueVars, hostVars, loadVars, subVars, guestVars>>

getCompilerScriptBytecode(c) ==
    \/ OnceFastPath(c)
    \/ OnceSlowPath(c)
    \/ CompileDone(c)
    \/ CompilePanic(c)
    \/ ReturnBytecode(c)

loadCompilerModule(c) == EvalBytecode(c)

NextCache ==
    \/ \E c \in Callers, kind \in {"get", "load"}, e \in Engines :
           StartCall(c, kind, e)
    \/ \E c \in Callers : getCompilerScriptBytecode(c)
    \/ \E c \in Callers : loadCompilerModule(c)

SpecCache == InitCache /\ [][NextCache]_vars

-----------------------------------------------------------------------------
(* Part 2: the Vue SFC pipeline.  Text is a sequence of tokens: a path is its
   file part (one token) followed by the characters of its query string, the
   words of the query being single tokens and numbers one token per digit. *)

Digits == <<"0", "1", "2", "3", "4", "5", "6", "7", "8", "9">>

DigitValue(t) == CHOOSE d \in 0..9 : Digits[d + 1] = t

IsDigit(t) == \E d \in 0..9 : Digits[d + 1] = t

\* The decimal text of a non-negative int, as text/template prints {{ $index }}.
RECURSIVE FormatInt(_)
FormatInt(n) ==
    IF n < 10 THEN <<Digits[n + 1]>>
              ELSE FormatInt(n \div 10) \o <<Digits[(n % 10) + 1]>>

RECURSIVE DigitsValue(_, _)
DigitsValue(text, acc) ==
    IF text = <<>> THEN acc
                   ELSE DigitsValue(Tail(text), acc * 10 + DigitValue(Head(text)))

\* strconv.Atoi: an optional sign and at least one decimal digit, nothing
\* else; on a syntax error the value is 0.
Atoi(text) ==
    LET body == IF text # <<>> /\ Head(text) \in {"-", "+"} THEN Tail(text) ELSE text
        ok   == body # <<>> /\ \A i \in 1..Len(body) : IsDigit(body[i])
    IN  [err   |-> ~ok,
         value |-> IF ~ok THEN 0
                   ELSE IF Head(text) = "-" THEN 0 - DigitsValue(body, 0)
                   ELSE DigitsValue(body, 0)]

\* Position of the first occurrence of token t in text, 0 if there is none.
IndexOf(text, t) ==
    IF \E i \in 1..Len(text) : text[i] = t
       THEN CHOOSE i \in 1..Len(text) :
                text[i] = t /\ \A j \in 1..(i - 1) : text[j] # t
       ELSE 0

\* url.Parse(path).RawQuery: what follows the first "?".
RawQuery(path) ==
    LET q == IndexOf(path, "?")
    IN  IF q = 0 THEN <<>> ELSE SubSeq(path, q + 1, Len(path))

\* url.Values.Get over url.ParseQuery: the pairs are separated by "&", key
\* and value by the first "="; Get returns the value of the first pair with
\* that key and the empty string when there is none.
RECURSIVE QueryGet(_, _)
QueryGet(query, key) ==
    IF query = <<>> THEN <<>>
    ELSE LET amp  == IndexOf(query, "&")
             pair == IF amp = 0 THEN query ELSE SubSeq(query, 1, amp - 1)
             rest == IF amp = 0 THEN <<>> ELSE SubSeq(query, amp + 1, Len(query))
             eq   == IndexOf(pair, "=")
             k    == IF eq = 0 THEN pair ELSE SubSeq(pair, 1, eq - 1)
             v    == IF eq = 0 THEN <<>> ELSE SubSeq(pair, eq + 1, Len(pair))
         IN  IF k = <<key>> THEN v ELSE QueryGet(rest, key)

\* The file part of a path: what precedes the query string.
FilePart(path) == path[1]

\* generateHashId: the hexadecimal xxhash of the source text; distinct
\* sources of the model have distinct hashes.
generateHashId(source) == <<"xxh", source>>

\* dataId := "data-v-" + hashId
DataId(source) == <<"data-v-">> \o generateHashId(source)

\* One statement of the synthesized entry module.
Stmt(kind, name, from, value) ==
    [stmt |-> kind, name |-> name, from |-> from, value |-> value]

\* Variant: a script map without content counts as a script.
hasScript_NilOnly(sfcScript) == sfcScript.kind = "map"

\* template helper hasScript
hasScript(sfcScript) == sfcScript.kind = "map" /\ sfcScript.content # "nil"

\* template helper hasTemplate
hasTemplate(sfcTemplate) == sfcTemplate.kind = "map" /\ sfcTemplate.code # "nil"

\* Variant: only the first style block is looked at.
someScoped_FirstOnly(sfcStyles) ==
    IF sfcStyles = <<>> THEN "false"
    ELSE IF Head(sfcStyles).scoped \notin {"true", "false"} THEN "panic"
    ELSE Head(sfcStyles).scoped

\* template helper someScoped: the type assertion style["scoped"].(bool)
\* panics on the first style whose value is not a boolean, unless an earlier
\* style already returned true.  Result: "true", "false" or "panic".
RECURSIVE someScoped(_)
someScoped(sfcStyles) ==
    IF sfcStyles = <<>> THEN "false"
    ELSE IF Head(sfcStyles).scoped \notin {"true", "false"} THEN "panic"
    ELSE IF Head(sfcStyles).scoped = "true" THEN "true"
    ELSE someScoped(Tail(sfcStyles))

\* The import path of a style block: relPath?type=style&index=N
StyleImportPath(relPath, index) ==
    <<relPath, "?", "type", "=", "style", "&", "index", "=">> \o FormatInt(index)

ScriptImportPath(relPath) == <<relPath, "?", "type", "=", "script">>

TemplateImportPath(relPath) == <<relPath, "?", "type", "=", "template">>

\* Variant: the client name in both modes.
RenderName_AlwaysClient(isSSRMode) == "render"

\* The render function's name in the two rendering modes.
RenderName(isSSRMode) == IF isSSRMode THEN "ssrRender" ELSE "render"

\* Variant: the style imports are numbered from 1.
StyleImports_OneBased(relPath, sfcStyles) ==
    [i \in 1..Len(sfcStyles) |->
        Stmt("import_side_effect", "", StyleImportPath(relPath, i), <<>>)]

\* {{ range $index, $_ := .styles }} import '...?type=style&index={{ $index }}'
StyleImports(relPath, sfcStyles) ==
    [i \in 1..Len(sfcStyles) |->
        Stmt("import_side_effect", "", StyleImportPath(relPath, i - 1), <<>>)]

\* generateEntryContents: the statements of the executed text/template, in
\* the template's order; a panic of a helper makes Execute fail, and the
\* function then returns the error and no text.
generateEntryContents(filePath, dataId, isSSRMode, sfcScript, sfcTemplate, sfcStyles) ==
    LET relPath == filePath
        scoped  == someScoped(sfcStyles)
        text ==
            (IF hasScript(sfcScript)
                THEN <<Stmt("import_default", "script", ScriptImportPath(relPath), <<>>)>>
                ELSE <<Stmt("const_empty_object", "script", <<>>, <<>>)>>)
            \o StyleImports(relPath, sfcStyles)
            \o (IF hasTemplate(sfcTemplate)
                THEN <<Stmt("import_named", RenderName(isSSRMode),
                            TemplateImportPath(relPath), <<>>),
                       Stmt("assign", RenderName(isSSRMode), <<>>,
                            <<RenderName(isSSRMode)>>)>>
                ELSE <<>>)
            \o <<Stmt("assign", "__file", <<>>, <<relPath>>)>>
            \o (IF scoped = "true"
                THEN <<Stmt("assign", "__scopeId", <<>>, dataId)>>
                ELSE <<>>)
            \o (IF isSSRMode
                THEN <<Stmt("assign", "__ssrInlineRender", <<>>, <<"true">>)>>
                ELSE <<>>)
            \o (IF hasScript(sfcScript)
                THEN <<Stmt("export_star", "", ScriptImportPath(relPath), <<>>)>>
                ELSE <<>>)
            \o <<Stmt("export_default", "script", <<>>, <<>>)>>
    IN  IF scoped = "panic"
           THEN [err |-> "failed to execute Vue entry template", contents |-> <<>>]
           ELSE [err |-> "none", contents |-> text]

-----------------------------------------------------------------------------
(* Part 2: values of the pipeline *)

\* The component files of the build and their (processed) source texts.
VuePaths == {"/proj/App.vue", "/proj/Card.vue"}
Sources  == {"srcA", "srcB"}

\* compileResult["script"]: absent, or a map with or without content.
NilScript == [kind |-> "nil", content |-> "nil"]
ScriptVals == {NilScript,
               [kind |-> "map", content |-> "nil"],
               [kind |-> "map", content |-> "js"]}

\* compileResult["template"]: absent, or a map with or without code.
\* tipsKind tells whether the map has a "tips" key and whether its value is
\* a list.
NilTemplate == [kind |-> "nil", code |-> "nil", tipsKind |-> "absent",
                tips |-> <<>>]
TemplateVals == {NilTemplate,
                 [NilTemplate EXCEPT !.kind = "map"],
                 [NilTemplate EXCEPT !.kind = "map", !.code = "render-code"]}

\* The values a tip may be: a string, a number, null.
TipValues == {[type |-> "string", text |-> "tip-a"],
              [type |-> "string", text |-> "tip-b"],
              [type |-> "number", text |-> ""],
              [type |-> "nil", text |-> ""]}

\* Templates with code and tips: every list of up to MaxTips tips, and a
\* tips value that is no list.
TippedTemplates ==
    LET t == [NilTemplate EXCEPT !.kind = "map", !.code = "render-code"]
    IN  {[t EXCEPT !.tipsKind = "string"]}
        \cup UNION { { [t EXCEPT !.tipsKind = "list", !.tips = l] :
                          l \in [1..n -> TipValues] } : n \in 0..MaxTips }

\* style["scoped"]: a boolean, or a value of another type.
ScopedVals == {"true", "false", "string"}

\* compileResult["styles"]: the i-th style block carries its own code.
StyleCode(i) == <<"css">> \o FormatInt(i)

\* Every list of up to MaxStyles style blocks, and one list of WideStyles
\* unscoped blocks (indices of more than one digit).
StyleLists ==
    UNION { { [i \in 1..n |-> [code |-> StyleCode(i - 1), scoped |-> f[i]]] :
                  f \in [1..n -> ScopedVals] } : n \in 0..MaxStyles }
    \cup { [i \in 1..WideStyles |-> [code |-> StyleCode(i - 1), scoped |-> "false"]] }

\* Fields of a result map that do not have the shape the compile service
\* gives them: a script or a template that is a string, a style list entry
\* that is no map.
StringScript == [kind |-> "string", content |-> "nil"]
StringTemplate == [NilTemplate EXCEPT !.kind = "string"]
NotMapStyle == [code |-> <<>>, scoped |-> "notmap"]

\* Result maps with one field of the wrong shape, the component having a
\* script, a template and a scoped style otherwise.
MalformedResponses ==
    LET good == [kind |-> "map",
                 script |-> [kind |-> "map", content |-> "js"],
                 template |-> [NilTemplate EXCEPT !.kind = "map",
                                                  !.code = "render-code"],
                 styles |-> <<[code |-> StyleCode(0), scoped |-> "true"]>>,
                 stylesKind |-> "list"]
    IN  {[good EXCEPT !.script = StringScript],
         [good EXCEPT !.template = StringTemplate],
         [good EXCEPT !.stylesKind = "string"],
         [good EXCEPT !.styles = <<NotMapStyle>>],
         [good EXCEPT !.styles = Append(@, NotMapStyle)]}

\* The answers of opts.jsExecutor.Execute for sfc.vue.compileSFC.
CompileResponses ==
    {[kind |-> "error", script |-> NilScript, template |-> NilTemplate,
      styles |-> <<>>, stylesKind |-> "list"],
     [kind |-> "notmap", script |-> NilScript, template |-> NilTemplate,
      styles |-> <<>>, stylesKind |-> "list"]}
    \cup [kind : {"map"}, script : ScriptVals, template : TemplateVals,
          styles : StyleLists, stylesKind : {"list"}]
    \cup MalformedResponses

\* The nil map that stands for a style list entry that is no map.
NilStyle == [code |-> <<>>, scoped |-> "absent"]

\* A plugin-data map.  An absent key is marked, since the handlers tell an
\* absent key from a present one.
EmptyPluginData ==
    [id |-> <<>>, script |-> NilScript, hasScript |-> FALSE,
     template |-> NilTemplate, hasTemplate |-> FALSE,
     styles |-> <<>>, hasStyles |-> FALSE,
     index |-> 0, hasIndex |-> FALSE]

\* References to plugin-data maps: the map made by the main-entry load, the
\* map made by the resolve callback for a request that carried none, and the
\* nil interface value.
Refs == {"entry", "own"}
NilRef == "nil"

EmptyHeap == [r \in Refs |-> EmptyPluginData]

NoEntry == [status |-> "none", path |-> "", source |-> "", dataId |-> <<>>,
            resp |-> [kind |-> "none"],
            script |-> NilScript, template |-> NilTemplate, styles |-> <<>>,
            contents |-> <<>>, pd |-> NilRef, errText |-> "", errFile |-> "",
            requests |-> <<>>, nth |-> 0]

NoResolution ==
    [reqPath |-> <<>>, reqPd |-> NilRef, aliased |-> "",
     seen |-> <<>>, invoked |-> <<>>,
     returns |-> <<>>, status |-> "none", err |-> "none", by |-> 0,
     path |-> <<>>, namespace |-> <<>>, pd |-> NilRef, index |-> -1]

NoOut == [kind |-> "none", status |-> "none", path |-> <<>>, given |-> NilRef,
          contents |-> <<>>, warnings |-> <<>>, requests |-> <<>>,
          loader |-> "", pd |-> NilRef]

InitVue ==
    /\ isSSR \in BOOLEAN
    /\ onVueResolveProcessors \in 0..MaxProcs
    /\ heap = EmptyHeap
    /\ entry = NoEntry
    /\ res = NoResolution
    /\ out = NoOut
    /\ compilerScript = "valid"
    /\ once = [done |-> FALSE, locked |-> FALSE]
    /\ compilerScriptBytecode = Nil
    /\ call = [c \in Callers |-> IdleCall]
    /\ compileCount = 0
    /\ faulty = {}
    /\ alive = TRUE
    /\ calls = 0
    /\ opts = [name |-> "idle"]
    /\ plugin = [status |-> "idle"]
    /\ build = [phase |-> "idle"]
    /\ sass = [status |-> "idle"]
    /\ vueSource = [status |-> "idle"]
    /\ fsCall = [status |-> "idle"]
    /\ loads = <<>>
    /\ pdHeap = <<>>
    /\ earlier = <<>>
    /\ sasslocation = Undefined
    /\ render = IdleRender

-----------------------------------------------------------------------------
(* Main-entry load *)

\* Variant: the diagnostic of a compile error carries no location.
CompileErrorResult_NoLocation(base, path) ==
    [base EXCEPT !.status = "error", !.errText = "Vue SFC compilation failed"]

\* What the callback returns when Execute returned an error: one message
\* located in the file, no contents, no plugin data.
CompileErrorResult(base, path) ==
    [base EXCEPT !.status = "error", !.errText = "Vue SFC compilation failed",
                 !.errFile = path]

\* Step 4 of the callback: the template is kept when it is a map, the styles
\* when they are a non-empty list, each entry that is no map becoming a nil
\* map.
ExtractTemplate(resp) ==
    IF resp.template.kind = "map" THEN resp.template ELSE NilTemplate

ExtractStyles(resp) ==
    IF resp.stylesKind # "list" THEN <<>>
    ELSE [i \in 1..Len(resp.styles) |->
              IF resp.styles[i].scoped = "notmap" THEN NilStyle
              ELSE resp.styles[i]]

\* What readVueSource returns in place of a source when it fails, and the
\* answer of a compile service that was not asked.
ReadFailed == "read-failed"
NoResponse == [kind |-> "none", script |-> NilScript, template |-> NilTemplate,
               styles |-> <<>>, stylesKind |-> "list"]

\* Variant: the request is sent twice.
CompileRequests_Twice(path, source) ==
    LET req == [service |-> "sfc.vue.compileSFC",
                hashId |-> generateHashId(source), path |-> path,
                source |-> source]
    IN  <<req, req>>

\* Step 3 of the callback: the requests sent to the executor, one, for the
\* service sfc.vue.compileSFC with the hash, the path and the source.
CompileRequests(path, source) ==
    <<[service |-> "sfc.vue.compileSFC", hashId |-> generateHashId(source),
       path |-> path, source |-> source]>>

\* The OnLoad callback for \.vue$ (registerMainEntryHandler), for what
\* readVueSource returned and the compile service's answer: what the
\* callback returns, and the plugin-data map it makes.  A read failure ends
\* the callback before the compile service is asked.  The unchecked type
\* assertion on a script that is no map is a panic of the callback.
mainEntryHandler(path, source, resp) ==
    LET dataId == DataId(source)
        base   == [NoEntry EXCEPT !.path = path, !.source = source,
                                  !.dataId = dataId, !.resp = resp,
                                  !.requests = CompileRequests(path, source)]
        script   == resp.script
        template == ExtractTemplate(resp)
        styles   == ExtractStyles(resp)
        gen    == generateEntryContents(path, dataId, isSSR, script,
                                        template, styles)
        pluginData ==
            [EmptyPluginData EXCEPT
                 !.id = dataId,
                 !.script = script, !.hasScript = TRUE,
                 !.template = template,
                 !.hasTemplate = (template.kind = "map"),
                 !.styles = styles,
                 !.hasStyles = (Len(styles) > 0)]
        result ==
            CASE source = ReadFailed ->
                   [NoEntry EXCEPT !.status = "readerror", !.path = path]
              [] source # ReadFailed /\ resp.kind = "error" ->
                   CompileErrorResult(base, path)
              [] source # ReadFailed /\ resp.kind = "notmap" ->
                   [base EXCEPT !.status = "error",
                                !.errText = "Invalid Vue SFC compilation result",
                                !.errFile = path]
              [] source # ReadFailed /\ resp.kind = "map"
                                     /\ script.kind = "string" ->
                   [base EXCEPT !.status = "panic"]
              [] source # ReadFailed /\ resp.kind = "map"
                                     /\ script.kind # "string"
                                     /\ gen.err # "none" ->
                   [base EXCEPT !.status = "error",
                                !.script = script,
                                !.template = template,
                                !.styles = styles,
                                !.errText = "Failed to generate Vue entry contents",
                                !.errFile = path]
              [] OTHER ->
                   [base EXCEPT !.status = "ok",
                                !.script = script,
                                !.template = template,
                                !.styles = styles,
                                !.contents = gen.contents,
                                !.pd = "entry"]
    IN  [entry |-> result, pluginData |-> pluginData]

\* The load of a component file.  A build loads a file once.
MainEntryLoad(path, source, resp) ==
    /\ entry.status = "none"
    /\ LET r == mainEntryHandler(path, source, resp)
       IN  /\ entry' = [r.entry EXCEPT !.nth = 1]
           /\ heap' = IF r.entry.status = "ok"
                         THEN [heap EXCEPT !["entry"] = r.pluginData]
                         ELSE heap
    /\ UNCHANGED <<isSSR, onVueResolveProcessors, res, out>>
    /\ UNCHANGED <<cacheVars, hostVars, loadVars, subVars, guestVars>>

\* The load of the same file by a later build: the maps and the results of
\* the build before are gone.
MainEntryReload(source, resp) ==
    /\ entry.status # "none"
    /\ entry.nth < MaxLoads
    /\ LET r == mainEntryHandler(entry.path, source, resp)
       IN  /\ entry' = [r.entry EXCEPT !.nth = entry.nth + 1]
           /\ heap' = IF r.entry.status = "ok"
                         THEN [EmptyHeap EXCEPT !["entry"] = r.pluginData]
                         ELSE EmptyHeap
    /\ res' = NoResolution
    /\ out' = NoOut
    /\ earlier' = <<>>
    /\ UNCHANGED <<isSSR, onVueResolveProcessors>>
    /\ UNCHANGED <<cacheVars, hostVars, loadVars, guestVars>>

-----------------------------------------------------------------------------
(* Resolve *)

\* What parseTsconfigPathAlias finds when a request reads the tsconfig: no
\* alias, the alias "@/*" -> "/proj/*", or a tsconfig it cannot parse.
Tsconfigs == {"none", "alias", "bad"}

\* applyPathAlias
applyPathAlias(tsconfig, file) ==
    IF tsconfig = "alias" /\ file = "@/App.vue" THEN "/proj/App.vue" ELSE file

\* filepath.IsAbs
IsAbs(file) == file \in VuePaths

\* filepath.Clean(filepath.Join(args.ResolveDir, args.Path)); every file of
\* the build lives in /proj.
JoinResolveDir(file) ==
    CASE file = "./App.vue" -> "/proj/App.vue"
      [] file = "@/App.vue" -> "/proj/@/App.vue"
      [] OTHER -> file

\* The import paths a file that is no synthesized entry module may hold.
DirectImports ==
    {<<"/proj/App.vue">>, <<"./App.vue">>, <<"@/App.vue">>,
     ScriptImportPath("/proj/App.vue"),
     <<"/proj/App.vue", "?", "type", "=", "custom">>}

\* An import the code of a component's script part may hold: a style
\* sub-resource of the component by an index of its author's choice.
ScriptPartImports(path) == {StyleImportPath(path, MaxStyles)}

\* The import paths of the statements of an entry module.
ImportsOf(contents) ==
    {contents[i].from : i \in {j \in 1..Len(contents) : contents[j].from # <<>>}}

\* What a resolve processor does with a request: "nil" is (nil, nil),
\* "result" a non-nil result, "err" an error.
ProcessorOutcomes == {"nil", "result", "err"}

\* The loop over opts.onVueResolveProcessors from processor k on: the
\* processors invoked, in order, and what each of them returned.
\* by: the processor whose result or error ended the loop (0: none).
\* Variant: a non-nil result does not end the loop; the last one wins.
RECURSIVE ProcessorChain_LastWins(_, _)
ProcessorChain_LastWins(outcomes, k) ==
    IF k > Len(outcomes)
       THEN [invoked |-> <<>>, returns |-> <<>>, verdict |-> "nil", by |-> 0]
    ELSE IF outcomes[k] = "err"
       THEN [invoked |-> <<k>>, returns |-> <<"err">>, verdict |-> "err", by |-> k]
    ELSE LET rest == ProcessorChain_LastWins(outcomes, k + 1)
             here == [rest EXCEPT !.invoked = <<k>> \o rest.invoked,
                                  !.returns = <<outcomes[k]>> \o rest.returns]
         IN  IF outcomes[k] = "result" /\ rest.verdict = "nil"
                THEN [here EXCEPT !.verdict = "result", !.by = k]
                ELSE here

RECURSIVE ProcessorChain(_, _)
ProcessorChain(outcomes, k) ==
    IF k > Len(outcomes)
       THEN [invoked |-> <<>>, returns |-> <<>>, verdict |-> "nil", by |-> 0]
    ELSE IF outcomes[k] = "nil"
       THEN LET rest == ProcessorChain(outcomes, k + 1)
            IN  [rest EXCEPT !.invoked = <<k>> \o rest.invoked,
                             !.returns = <<"nil">> \o rest.returns]
    ELSE [invoked |-> <<k>>, returns |-> <<outcomes[k]>>, verdict |-> outcomes[k],
          by |-> k]

\* namespace := "file", or "sfc-" + t for a type parameter t
NamespaceOf(path) ==
    LET t == QueryGet(RawQuery(path), "type")
    IN  IF t # <<>> THEN <<"sfc-">> \o t ELSE <<"file">>

\* Variant: a path that is not absolute is left as it is.
MakeAbsolute_Keep(file) == file

\* The second step of the callback: a path that is not absolute is joined
\* to the resolve directory.
MakeAbsolute(file) == IF IsAbs(file) THEN file ELSE JoinResolveDir(file)

\* The OnResolve callback for \.vue(\?.*)?$ (registerResolveHandler), for an
\* import path, the plugin data of the importer, the tsconfig found and what
\* each registered processor does with this request.  The model follows one
\* resolve request and the load it leads to.
ResolveStep(reqPath, reqPd, tsconfig, outcomes) ==
    /\ LET aliased  == applyPathAlias(tsconfig, FilePart(reqPath))
           absolute == MakeAbsolute(aliased)
           base     == [NoResolution EXCEPT !.reqPath = reqPath, !.reqPd = reqPd]
           path     == <<absolute>> \o Tail(reqPath)
           chain    == ProcessorChain(outcomes, 1)
           ran      == [base EXCEPT !.aliased = aliased, !.seen = path,
                                    !.invoked = chain.invoked,
                                    !.returns = chain.returns, !.by = chain.by]
           params   == RawQuery(path)
           indexStr == QueryGet(params, "index")
           index    == Atoi(indexStr)
           setIndex == indexStr # <<>> /\ ~index.err
           ref      == IF reqPd = NilRef THEN "own" ELSE reqPd
           before   == IF reqPd = NilRef THEN EmptyPluginData ELSE heap[reqPd]
           after    == IF setIndex
                          THEN [before EXCEPT !.index = index.value, !.hasIndex = TRUE]
                          ELSE before
       IN  CASE tsconfig = "bad" ->
                  /\ res' = [base EXCEPT !.status = "error", !.err = "tsconfig"]
                  /\ heap' = heap
             [] tsconfig # "bad" /\ chain.verdict = "err" ->
                  /\ res' = [ran EXCEPT !.status = "error", !.err = "processor"]
                  /\ heap' = heap
             [] tsconfig # "bad" /\ chain.verdict = "result" ->
                  /\ res' = [ran EXCEPT !.status = "ok", !.path = path,
                                        !.namespace = <<"file">>]
                  /\ heap' = heap
             [] OTHER ->
                  /\ res' = [ran EXCEPT !.status = "ok", !.path = path,
                                        !.namespace = NamespaceOf(path),
                                        !.pd = ref,
                                        !.index = IF setIndex THEN index.value
                                                  ELSE -1]
                  /\ heap' = [heap EXCEPT ![ref] = after]
    /\ UNCHANGED <<isSSR, onVueResolveProcessors, entry, out>>
    /\ UNCHANGED <<cacheVars, hostVars, loadVars, guestVars>>

\* The first resolve request of a behaviour.
Resolve(reqPath, reqPd, tsconfig, outcomes) ==
    /\ res.status = "none"
    /\ ResolveStep(reqPath, reqPd, tsconfig, outcomes)
    /\ UNCHANGED subVars

\* A further resolve request: the result returned before stays with the
\* build, which hands it to the load of that module.
ResolveNext(reqPath, reqPd, tsconfig, outcomes) ==
    /\ res.status = "ok"
    /\ reqPd # NilRef
    /\ out.kind = "none"
    /\ Len(earlier) + 1 < MaxResolves
    /\ ResolveStep(reqPath, reqPd, tsconfig, outcomes)
    /\ earlier' = Append(earlier, res)

\* A resolve request of the build: an import of the loaded entry module or
\* of its script part, which carries the plugin data of that load, or an
\* import of another file.
ResolveImport ==
    \E tsconfig \in Tsconfigs,
       outcomes \in [1..onVueResolveProcessors -> ProcessorOutcomes] :
        \/ /\ entry.status = "ok"
           /\ \E reqPath \in ImportsOf(entry.contents) :
                  Resolve(reqPath, entry.pd, tsconfig, outcomes)
        \/ /\ entry.status = "ok"
           /\ hasScript(entry.script)
           /\ \E reqPath \in ScriptPartImports(entry.path) :
                  Resolve(reqPath, entry.pd, tsconfig, outcomes)
        \/ \E reqPath \in DirectImports :
                  Resolve(reqPath, NilRef, tsconfig, outcomes)

-----------------------------------------------------------------------------
(* Sub-resource loads *)

\* The OnLoad callback of namespace sfc-script (registerScriptHandler), for
\* scripts without source map and without lang.  A failed type assertion
\* (nil plugin data, no script, a script without content) is a panic of the
\* callback.
scriptHandler(path, pd) ==
    LET pluginData == IF pd = NilRef THEN EmptyPluginData ELSE heap[pd]
        script     == pluginData.script
        panics     == \/ pd = NilRef
                      \/ ~pluginData.hasScript
                      \/ script.kind # "map"
                      \/ script.content = "nil"
    IN  IF panics
        THEN [NoOut EXCEPT !.kind = "script", !.status = "panic",
                           !.path = path, !.given = pd]
        ELSE [NoOut EXCEPT !.kind = "script", !.status = "ok",
                           !.path = path, !.given = pd,
                           !.contents = <<script.content>>,
                           !.loader = "js", !.pd = pd]

\* The script load of the module of the latest resolution.
ScriptLoad ==
    /\ out.kind = "none"
    /\ res.status = "ok"
    /\ res.namespace = <<"sfc-", "script">>
    /\ out' = scriptHandler(res.path, res.pd)
    /\ UNCHANGED <<isSSR, onVueResolveProcessors, heap, entry, res>>
    /\ UNCHANGED <<cacheVars, hostVars, loadVars, subVars, guestVars>>

\* The warnings made of a list of tips: one per string, in order.
RECURSIVE TipWarnings_All(_)
TipWarnings_All(tips) ==
    IF tips = <<>> THEN <<>>
    ELSE <<Head(tips).text>> \o TipWarnings_All(Tail(tips))

RECURSIVE TipWarnings(_)
TipWarnings(tips) ==
    IF tips = <<>> THEN <<>>
    ELSE IF Head(tips).type = "string"
         THEN <<Head(tips).text>> \o TipWarnings(Tail(tips))
         ELSE TipWarnings(Tail(tips))

\* The OnLoad callback of namespace sfc-template (registerTemplateHandler).
\* A failed type assertion (nil plugin data, no template, a template
\* without code) is a panic of the callback.
templateHandler(path, pd) ==
    LET pluginData == IF pd = NilRef THEN EmptyPluginData ELSE heap[pd]
        template   == pluginData.template
        panics     == \/ pd = NilRef
                      \/ ~pluginData.hasTemplate
                      \/ template.code = "nil"
    IN  IF panics
        THEN [NoOut EXCEPT !.kind = "template", !.status = "panic",
                           !.path = path, !.given = pd]
        ELSE [NoOut EXCEPT !.kind = "template", !.status = "ok",
                           !.path = path, !.given = pd,
                           !.contents = <<template.code>>,
                           !.warnings = IF template.tipsKind = "list"
                                        THEN TipWarnings(template.tips)
                                        ELSE <<>>,
                           !.loader = "ts", !.pd = pd]

\* The template load of the module of the latest resolution.
TemplateLoad ==
    /\ out.kind = "none"
    /\ res.status = "ok"
    /\ res.namespace = <<"sfc-", "template">>
    /\ out' = templateHandler(res.path, res.pd)
    /\ UNCHANGED <<isSSR, onVueResolveProcessors, heap, entry, res>>
    /\ UNCHANGED <<cacheVars, hostVars, loadVars, subVars, guestVars>>

\* Variant: the handler serves the first style block whatever the index.
StyleLoad_FirstStyle ==
    /\ out.kind = "none"
    /\ res.status = "ok"
    /\ res.namespace = <<"sfc-", "style">>
    /\ LET pluginData == IF res.pd = NilRef THEN EmptyPluginData ELSE heap[res.pd]
           styles     == pluginData.styles
           panics     == \/ res.pd = NilRef
                         \/ ~pluginData.hasStyles
                         \/ styles[1] = NilStyle
       IN  out' = IF panics
                     THEN [NoOut EXCEPT !.kind = "style", !.status = "panic"]
                     ELSE [NoOut EXCEPT !.kind = "style", !.status = "ok",
                                        !.contents = styles[1].code,
                                        !.loader = "css", !.pd = res.pd]
    /\ UNCHANGED <<isSSR, onVueResolveProcessors, heap, entry, res>>
    /\ UNCHANGED <<cacheVars, hostVars, loadVars, subVars, guestVars>>

\* The OnLoad callback of namespace sfc-style (registerStyleHandler) for the
\* latest resolution.  A failed type assertion or an index out of range is a
\* panic of the callback.
styleHandler(path, pd) ==
    LET pluginData == IF pd = NilRef THEN EmptyPluginData ELSE heap[pd]
        indexStr   == QueryGet(RawQuery(path), "index")
        index      == Atoi(indexStr).value
        styles     == pluginData.styles
        panics     == \/ pd = NilRef
                      \/ ~pluginData.hasStyles
                      \/ index < 0
                      \/ index >= Len(styles)
                      \/ styles[index + 1] = NilStyle
    IN  IF panics
        THEN [NoOut EXCEPT !.kind = "style", !.status = "panic",
                           !.path = path, !.given = pd]
        ELSE [NoOut EXCEPT !.kind = "style", !.status = "ok",
                           !.path = path, !.given = pd,
                           !.contents = styles[index + 1].code,
                           !.loader = "css", !.pd = pd]

\* The style load of the module of the latest resolution.
StyleLoad ==
    /\ out.kind = "none"
    /\ res.status = "ok"
    /\ res.namespace = <<"sfc-", "style">>
    /\ out' = styleHandler(res.path, res.pd)
    /\ UNCHANGED <<isSSR, onVueResolveProcessors, heap, entry, res>>
    /\ UNCHANGED <<cacheVars, hostVars, loadVars, subVars, guestVars>>

\* The style load of the module of an earlier resolution.
StyleLoadEarlier(k) ==
    /\ out.kind = "none"
    /\ k \in 1..Len(earlier)
    /\ earlier[k].namespace = <<"sfc-", "style">>
    /\ out' = styleHandler(earlier[k].path, earlier[k].pd)
    /\ UNCHANGED <<isSSR, onVueResolveProcessors, heap, entry, res>>
    /\ UNCHANGED <<cacheVars, hostVars, loadVars, subVars, guestVars>>

NextVue ==
    \/ \E path \in VuePaths, source \in Sources, resp \in CompileResponses :
           MainEntryLoad(path, source, resp)
    \/ \E path \in VuePaths : MainEntryLoad(path, ReadFailed, NoResponse)
    \/ ResolveImport
    \/ ScriptLoad
    \/ TemplateLoad
    \/ StyleLoad

SpecVue == InitVue /\ [][NextVue]_vars

-----------------------------------------------------------------------------
(* Part 3: plugin construction *)

\* newOptions: the default name, no executor, empty processor chains (a
\* chain is kept as the number of processors appended to it; a processor is
\* named by its position in its chain).
newOptions ==
    [name |-> "vue-plugin", jsExecutor |-> "nil",
     onStartProcessors |-> 0, onVueLoadProcessors |-> 0,
     onSassLoadProcessors |-> 0, onEndProcessors |-> 0]

\* The option functions a caller may pass to NewPlugin.
OptionFuncs ==
    [fn : {"WithName"}, arg : {"a", "b"}]
    \cup [fn : {"WithJsExecutor"}, arg : {"exec", "nil"}]
    \cup [fn : {"WithOnStartProcessor", "WithOnVueLoadProcessor",
                "WithOnSassLoadProcessor", "WithOnEndProcessor"}, arg : {"proc"}]

\* One option function applied to the options.
ApplyOption(o, f) ==
    CASE f.fn = "WithName" -> [o EXCEPT !.name = f.arg]
      [] f.fn = "WithJsExecutor" -> [o EXCEPT !.jsExecutor = f.arg]
      [] f.fn = "WithOnStartProcessor" ->
             [o EXCEPT !.onStartProcessors = @ + 1]
      [] f.fn = "WithOnVueLoadProcessor" ->
             [o EXCEPT !.onVueLoadProcessors = @ + 1]
      [] f.fn = "WithOnSassLoadProcessor" ->
             [o EXCEPT !.onSassLoadProcessors = @ + 1]
      [] f.fn = "WithOnEndProcessor" ->
             [o EXCEPT !.onEndProcessors = @ + 1]

\* for _, fn := range optsFunc { fn(opts) }
RECURSIVE ApplyOptions(_, _)
ApplyOptions(o, optsFunc) ==
    IF optsFunc = <<>> THEN o
    ELSE ApplyOptions(ApplyOption(o, Head(optsFunc)), Tail(optsFunc))

\* The last name a WithName of the list carries, "" when there is none, and
\* the executor the last WithJsExecutor carries, "nil" when there is none.
RECURSIVE LastArg(_, _, _)
LastArg(optsFunc, fn, default) ==
    IF optsFunc = <<>> THEN default
    ELSE LET last == optsFunc[Len(optsFunc)]
         IN  IF last.fn = fn THEN last.arg
             ELSE LastArg(SubSeq(optsFunc, 1, Len(optsFunc) - 1), fn, default)

NoPlugin == [status |-> "none", name |-> "", msg |-> "",
             lastName |-> "", lastExecutor |-> "nil"]

NoBuild == [phase |-> "setup", log |-> <<>>, startReturns |-> <<>>,
            endReturns |-> <<>>, errors |-> <<>>]

NoSass == [status |-> "none"]
NoVueSource == [status |-> "none"]
NoFsCall == [status |-> "none"]

InitPlugin ==
    /\ opts = newOptions
    /\ plugin = NoPlugin
    /\ build = NoBuild
    /\ sass = NoSass
    /\ vueSource = NoVueSource
    /\ fsCall = NoFsCall
    /\ loads = <<>>
    /\ pdHeap = <<>>
    /\ earlier = <<>>
    /\ sasslocation = Undefined
    /\ render = IdleRender
    /\ isSSR = FALSE
    /\ onVueResolveProcessors = 0
    /\ heap = <<>>
    /\ entry = [status |-> "idle"]
    /\ res = [status |-> "idle"]
    /\ out = [kind |-> "idle"]
    /\ compilerScript = "valid"
    /\ once = [done |-> FALSE, locked |-> FALSE]
    /\ compilerScriptBytecode = Nil
    /\ call = [c \in Callers |-> IdleCall]
    /\ compileCount = 0
    /\ faulty = {}
    /\ alive = TRUE
    /\ calls = 0

\* Variant: the executor is tested before the option functions are applied.
NewPlugin_CheckDefaults(optsFunc) ==
    /\ plugin.status = "none"
    /\ plugin' = [status |-> "panic", name |-> "",
                  msg |-> "jsExecutor is required, please set it using WithJsExecutor()",
                  lastName |-> LastArg(optsFunc, "WithName", ""),
                  lastExecutor |-> LastArg(optsFunc, "WithJsExecutor", "nil")]
    /\ UNCHANGED <<opts, build, sass, vueSource, fsCall>>
    /\ UNCHANGED <<cacheVars, vueVars, loadVars, subVars, guestVars>>

\* NewPlugin: the option functions are applied in order to fresh options; a
\* nil executor is a panic, otherwise the plugin carries opts.name and its
\* callbacks close over the options.
NewPlugin(optsFunc) ==
    /\ plugin.status = "none"
    /\ LET o == ApplyOptions(newOptions, optsFunc)
           ghost == [NoPlugin EXCEPT
                        !.lastName = LastArg(optsFunc, "WithName", ""),
                        !.lastExecutor = LastArg(optsFunc, "WithJsExecutor", "nil")]
       IN  IF o.jsExecutor = "nil"
           THEN /\ plugin' = [ghost EXCEPT !.status = "panic",
                      !.msg = "jsExecutor is required, please set it using WithJsExecutor()"]
                /\ opts' = opts
           ELSE /\ plugin' = [ghost EXCEPT !.status = "ok", !.name = o.name]
                /\ opts' = o
    /\ UNCHANGED <<build, sass, vueSource, fsCall>>
    /\ UNCHANGED <<cacheVars, vueVars, loadVars, subVars, guestVars>>

-----------------------------------------------------------------------------
(* Build life cycle: the start and end processor chains *)

\* What a start or end processor returns: nil or an error.
LifecycleOutcomes == {"nil", "error"}

\* Variant: the loop goes on after a processor's error and reports the last
\* error.
RunChain_KeepGoing(outcomes, k) ==
    LET failing == {i \in 1..Len(outcomes) : outcomes[i] = "error"}
    IN  [invoked |-> Len(outcomes),
         failed |-> IF failing = {} THEN 0
                    ELSE CHOOSE i \in failing : \A j \in failing : j <= i]

\* for _, processor := range chain { if err := processor(...); err != nil {
\* return err } }, from the k-th processor on: the number of processors
\* invoked and the position of the one that failed (0: none).
RECURSIVE RunChain(_, _)
RunChain(outcomes, k) ==
    IF k > Len(outcomes) THEN [invoked |-> Len(outcomes), failed |-> 0]
    ELSE IF outcomes[k] = "error" THEN [invoked |-> k, failed |-> k]
    ELSE RunChain(outcomes, k + 1)

\* The log entries of a chain run: one per processor invoked, in order.
ChainLog(chain, run) == [i \in 1..run.invoked |-> <<chain, i>>]

\* The OnStart callback: esbuild calls it once, before any resolve or load.
OnStart ==
    /\ plugin.status = "ok"
    /\ build.phase = "setup"
    /\ \E outcomes \in [1..opts.onStartProcessors -> LifecycleOutcomes] :
           LET run == RunChain(outcomes, 1)
           IN  build' = [build EXCEPT
                   !.phase = IF run.failed = 0 THEN "started" ELSE "startFailed",
                   !.log = @ \o ChainLog("start", run),
                   !.startReturns = outcomes,
                   !.errors = IF run.failed = 0 THEN @
                              ELSE Append(@, <<"start", run.failed>>)]
    /\ UNCHANGED <<opts, plugin, sass, vueSource, fsCall>>
    /\ UNCHANGED <<cacheVars, vueVars, loadVars, subVars, guestVars>>

\* The OnEnd callback: esbuild calls it once, after the build's processing.
OnEnd ==
    /\ plugin.status = "ok"
    /\ build.phase \in {"started", "startFailed"}
    /\ \E outcomes \in [1..opts.onEndProcessors -> LifecycleOutcomes] :
           LET run == RunChain(outcomes, 1)
           IN  build' = [build EXCEPT
                   !.phase = "ended",
                   !.log = @ \o ChainLog("end", run),
                   !.endReturns = outcomes,
                   !.errors = IF run.failed = 0 THEN @
                              ELSE Append(@, <<"end", run.failed>>)]
    /\ UNCHANGED <<opts, plugin, sass, vueSource, fsCall>>
    /\ UNCHANGED <<cacheVars, vueVars, loadVars, subVars, guestVars>>

\* The build runs one load-time operation of this part per behaviour.
NoLoadYet ==
    /\ sass.status = "none"
    /\ vueSource.status = "none"
    /\ fsCall.status = "none"

-----------------------------------------------------------------------------
(* Sass load *)

\* The .scss/.sass files of the build and filepath.Dir of each.
SassPaths == {"/proj/main.scss", "/proj/styles/theme.sass"}

Dir(filePath) ==
    CASE filePath = "/proj/main.scss" -> "/proj"
      [] filePath = "/proj/styles/theme.sass" -> "/proj/styles"
      [] OTHER -> "."

\* What a Sass load processor returns: content (empty or not) and an error
\* (nil or not).  The k-th processor's non-empty content is its own.
SassProcessorReturns == [content : {"empty", "text"}, err : {"nil", "error"}]

SassContentOf(k) == <<"scss-of-processor", k>>

\* os.ReadFile(args.Path): an error, or the file's bytes (possibly none).
DiskReads == {[err |-> "error", data |-> <<>>],
              [err |-> "nil", data |-> <<>>],
              [err |-> "nil", data |-> <<"scss-on-disk">>]}

\* Variant: a processor's empty content is returned like any other.
SassProcessorChain_FirstWins(returns, k) ==
    IF k > Len(returns) THEN [invoked |-> Len(returns), verdict |-> "disk", by |-> 0]
    ELSE IF returns[k].err = "error"
         THEN [invoked |-> k, verdict |-> "error", by |-> k]
    ELSE [invoked |-> k, verdict |-> "content", by |-> k]

\* The processor loop of readSassSource from the k-th processor on: the
\* number of processors invoked, and whether the loop returned an error,
\* returned a processor's content, or fell through to the disk read.
RECURSIVE SassProcessorChain(_, _)
SassProcessorChain(returns, k) ==
    IF k > Len(returns) THEN [invoked |-> Len(returns), verdict |-> "disk", by |-> 0]
    ELSE IF returns[k].err = "error"
         THEN [invoked |-> k, verdict |-> "error", by |-> k]
    ELSE IF returns[k].content # "empty"
         THEN [invoked |-> k, verdict |-> "content", by |-> k]
    ELSE SassProcessorChain(returns, k + 1)

\* readSassSource
readSassSource(returns, disk) ==
    LET chain == SassProcessorChain(returns, 1)
        base  == [invoked |-> chain.invoked, by |-> chain.by,
                  diskRead |-> FALSE, source |-> <<>>, err |-> "none"]
    IN  CASE chain.verdict = "error" ->
                 [base EXCEPT !.err = "sass processor failed"]
          [] chain.verdict = "content" ->
                 [base EXCEPT !.source = SassContentOf(chain.by)]
          [] OTHER ->
                 IF disk.err = "error"
                 THEN [base EXCEPT !.diskRead = TRUE,
                                   !.err = "failed to read sass file"]
                 ELSE [base EXCEPT !.diskRead = TRUE, !.source = disk.data]

\* The answers of jsExecutor.Execute for sfc.sass.renderSync: an error, a
\* result that is no map, or a map whose css field is absent, is no string,
\* or is a string (possibly empty).
SassResponses ==
    {[kind |-> "error", css |-> "absent", text |-> <<>>],
     [kind |-> "notmap", css |-> "absent", text |-> <<>>],
     [kind |-> "map", css |-> "absent", text |-> <<>>],
     [kind |-> "map", css |-> "number", text |-> <<>>],
     [kind |-> "map", css |-> "string", text |-> <<>>],
     [kind |-> "map", css |-> "string", text |-> <<"compiled-css">>]}

\* Variant: a map without a string css field counts as an invalid response.
compileSass_OneMessage(filePath, source, resp) ==
    LET request == [service |-> "sfc.sass.renderSync", data |-> source,
                    sasslocation |-> Dir(filePath)]
    IN  CASE resp.kind = "error" ->
                 [request |-> request, css |-> <<>>,
                  err |-> "sass compilation service failed"]
          [] resp.kind = "notmap" \/ resp.css # "string" ->
                 [request |-> request, css |-> <<>>,
                  err |-> "invalid response from sass compilation service"]
          [] OTHER ->
                 [request |-> request, css |-> resp.text, err |-> "none"]

\* compileSass: the request it sends and what it returns for the answer.
compileSass(filePath, source, resp) ==
    LET request == [service |-> "sfc.sass.renderSync", data |-> source,
                    sasslocation |-> Dir(filePath)]
    IN  CASE resp.kind = "error" ->
                 [request |-> request, css |-> <<>>,
                  err |-> "sass compilation service failed"]
          [] resp.kind = "notmap" ->
                 [request |-> request, css |-> <<>>,
                  err |-> "invalid response from sass compilation service"]
          [] resp.css # "string" ->
                 [request |-> request, css |-> <<>>,
                  err |-> "failed to extract CSS from compilation result"]
          [] OTHER ->
                 [request |-> request, css |-> resp.text, err |-> "none"]

\* The OnLoad callback of namespace sass-loader (registerSassLoadHandler):
\* read the source, compile it, report either failure as a diagnostic on the
\* file.
SassLoad(path, returns, disk, resp) ==
    /\ plugin.status = "ok"
    /\ build.phase = "started"
    /\ NoLoadYet
    /\ LET read == readSassSource(returns, disk)
           comp == compileSass(path, read.source, resp)
           base == [status |-> "error", path |-> path, returns |-> returns,
                    disk |-> disk, invoked |-> read.invoked,
                    diskRead |-> read.diskRead, source |-> read.source,
                    requests |-> <<>>, resp |-> resp, css |-> <<>>,
                    loader |-> "", errText |-> "", errFile |-> ""]
       IN  sass' =
               IF read.err # "none"
               THEN [base EXCEPT !.errText = read.err, !.errFile = path]
               ELSE IF comp.err # "none"
               THEN [base EXCEPT !.requests = <<comp.request>>,
                                  !.errText = comp.err, !.errFile = path]
               ELSE [base EXCEPT !.status = "ok",
                                  !.requests = <<comp.request>>,
                                  !.css = comp.css, !.loader = "css"]
    /\ UNCHANGED <<opts, plugin, build, vueSource, fsCall>>
    /\ UNCHANGED <<cacheVars, vueVars, loadVars, subVars, guestVars>>

-----------------------------------------------------------------------------
(* readVueSource *)

\* The bytes of a component file, as a sequence of pieces of text; "CRLF" and
\* "LF" are the line ends.
VueDiskReads == {[err |-> "error", data |-> <<>>],
                 [err |-> "nil", data |-> <<>>],
                 [err |-> "nil", data |-> <<"tpl", "CRLF", "css", "LF">>]}

\* strings.ReplaceAll(source, "\r\n", "\n")
NormalizeLineEndings(source) ==
    [i \in 1..Len(source) |-> IF source[i] = "CRLF" THEN "LF" ELSE source[i]]

\* What a Vue load processor does with the source it receives: returns it
\* with its own text added, returns the empty string, or returns an error.
VueProcessorOutcomes == {"append", "empty", "error"}

VueProcessorOutput(outcome, k, source) ==
    IF outcome = "append" THEN source \o <<"CRLF", <<"by-processor", k>>>>
    ELSE <<>>

\* Variant: every processor receives the normalized disk content.
RECURSIVE VueProcessorChain_SameInput(_, _, _, _)
VueProcessorChain_SameInput(outcomes, k, source, received) ==
    LET input == IF received = <<>> THEN source ELSE received[1]
    IN  IF k > Len(outcomes)
        THEN [received |-> received, source |-> source, failed |-> 0]
        ELSE IF outcomes[k] = "error"
             THEN [received |-> Append(received, input), source |-> <<>>,
                   failed |-> k]
             ELSE VueProcessorChain_SameInput(outcomes, k + 1,
                      VueProcessorOutput(outcomes[k], k, input),
                      Append(received, input))

\* The processor loop of readVueSource from the k-th processor on, for the
\* current source: the source each invoked processor received, the final
\* source, and the position of the processor that failed (0: none).
RECURSIVE VueProcessorChain(_, _, _, _)
VueProcessorChain(outcomes, k, source, received) ==
    IF k > Len(outcomes)
    THEN [received |-> received, source |-> source, failed |-> 0]
    ELSE IF outcomes[k] = "error"
         THEN [received |-> Append(received, source), source |-> <<>>,
               failed |-> k]
         ELSE VueProcessorChain(outcomes, k + 1,
                                VueProcessorOutput(outcomes[k], k, source),
                                Append(received, source))

\* readVueSource
readVueSource(disk, outcomes) ==
    IF disk.err = "error"
    THEN [status |-> "error", err |-> "read", received |-> <<>>, source |-> <<>>]
    ELSE LET chain == VueProcessorChain(outcomes, 1,
                                        NormalizeLineEndings(disk.data), <<>>)
         IN  IF chain.failed # 0
             THEN [status |-> "error", err |-> <<"processor", chain.failed>>,
                   received |-> chain.received, source |-> <<>>]
             ELSE [status |-> "ok", err |-> "none",
                   received |-> chain.received, source |-> chain.source]

\* A call of readVueSource by the main-entry load of a component file.
ReadVueSource(disk, outcomes) ==
    /\ plugin.status = "ok"
    /\ build.phase = "started"
    /\ NoLoadYet
    /\ LET read == readVueSource(disk, outcomes)
       IN  vueSource' = [status |-> read.status, err |-> read.err,
                         disk |-> disk, outcomes |-> outcomes,
                         received |-> read.received, source |-> read.source]
    /\ UNCHANGED <<opts, plugin, build, sass, fsCall>>
    /\ UNCHANGED <<cacheVars, vueVars, loadVars, subVars, guestVars>>

-----------------------------------------------------------------------------
(* Host bridge functions (compilerFs) *)

\* The paths guest code passes: the empty path, a path that does not exist,
\* a path below a directory that may not be searched, a regular file, an
\* empty file, a file that may not be read, a directory, a symbolic link to
\* the regular file, a symbolic link to nothing, and a relative path.
FsPaths == {"", "/missing", "/private/file", "/proj/file", "/proj/empty",
            "/proj/locked", "/proj", "/proj/link", "/proj/dangling", "."}

\* os.Stat(file) returns an error.
StatFails(file) ==
    file \in {"", "/missing", "/private/file", "/proj/dangling"}

\* os.ReadFile(file) returns an error.
ReadFileFails(file) ==
    file \in {"", "/missing", "/private/file", "/proj/locked", "/proj",
              "/proj/dangling", "."}

\* The bytes os.ReadFile(file) returns.
FileData(file) ==
    CASE file = "/proj/file" -> <<"file-data">>
      [] file = "/proj/link" -> <<"file-data">>
      [] OTHER -> <<>>

\* filepath.EvalSymlinks(file) returns an error; for the empty path the
\* platform decides.
EvalSymlinksFails(file, emptyPathFails) ==
    \/ file \in {"/missing", "/private/file", "/proj/dangling"}
    \/ file = "" /\ emptyPathFails

\* The path filepath.EvalSymlinks(file) returns.
EvalSymlinks(file) ==
    CASE file = "/proj/link" -> "/proj/file"
      [] file = "" -> "."
      [] OTHER -> file

\* filepath.Abs(resolved): an absolute path is returned as it is; a relative
\* one is joined to the working directory, which fails ("" is returned)
\* when the working directory cannot be determined.
Abs(resolved, cwdFails) ==
    IF resolved = "." THEN (IF cwdFails THEN "" ELSE "/proj") ELSE resolved

\* fileExistsFunc
fileExistsFunc(file) ==
    IF StatFails(file) THEN [kind |-> "bool", value |-> FALSE]
    ELSE [kind |-> "bool", value |-> TRUE]

\* Variant: a failed read yields undefined.
readFileFunc_Undefined(file) ==
    IF ReadFileFails(file) THEN [kind |-> "undefined", value |-> <<>>]
    ELSE [kind |-> "string", value |-> FileData(file)]

\* readFileFunc
readFileFunc(file) ==
    IF ReadFileFails(file) THEN [kind |-> "exception", value |-> <<>>]
    ELSE [kind |-> "string", value |-> FileData(file)]

\* realpathFunc
realpathFunc(file, emptyPathFails, cwdFails) ==
    IF EvalSymlinksFails(file, emptyPathFails)
    THEN [kind |-> "exception", value |-> ""]
    ELSE [kind |-> "string", value |-> Abs(EvalSymlinks(file), cwdFails)]

\* Guest code calls one of the functions of the compilerFs object.
FsCall(fn, file, emptyPathFails, cwdFails) ==
    /\ NoLoadYet
    /\ fsCall' = [status |-> "returned", fn |-> fn, file |-> file,
                  emptyPathFails |-> emptyPathFails,
                  result |-> CASE fn = "fileExists" -> fileExistsFunc(file)
                               [] fn = "readFile" -> readFileFunc(file)
                               [] OTHER -> realpathFunc(file, emptyPathFails,
                                                        cwdFails)]
    /\ UNCHANGED <<opts, plugin, build, sass, vueSource>>
    /\ UNCHANGED <<cacheVars, vueVars, loadVars, subVars, guestVars>>

-----------------------------------------------------------------------------

NextPlugin ==
    \/ \E n \in 0..MaxOpts : \E optsFunc \in [1..n -> OptionFuncs] :
           NewPlugin(optsFunc)
    \/ OnStart
    \/ OnEnd
    \/ \E path \in SassPaths, disk \in DiskReads, resp \in SassResponses :
           \E returns \in [1..opts.onSassLoadProcessors -> SassProcessorReturns] :
               SassLoad(path, returns, disk, resp)
    \/ \E disk \in VueDiskReads :
           \E outcomes \in [1..opts.onVueLoadProcessors -> VueProcessorOutcomes] :
               ReadVueSource(disk, outcomes)
    \/ \E fn \in {"fileExists", "readFile", "realpath"}, file \in FsPaths,
          emptyPathFails \in BOOLEAN, cwdFails \in BOOLEAN :
           FsCall(fn, file, emptyPathFails, cwdFails)

SpecPlugin == InitPlugin /\ [][NextPlugin]_vars

-----------------------------------------------------------------------------
(* Claims about the bytecode cache *)

\* The caller has come back from getCompilerScriptBytecode with a value.
HasReturned(c) == call[c].pc \in {"returned", "eval", "loaded", "loadErr"}

\* C1: with any number of concurrent callers on a fresh cache the source is
\* compiled at most once, no caller returns while the compilation has not
\* finished, and every caller that returns holds the same non-empty bytes.
C1_ConcurrentCallersSameBytecode ==
    /\ compileCount <= 1
    /\ \A c \in Callers : HasReturned(c) =>
          /\ once.done
          /\ \A d \in Callers : call[d].pc # "compiling"
          /\ call[c].result # Nil
          /\ \A d \in Callers : HasReturned(d) => call[d].result = call[c].result

\* C2: over any sequence of loadCompilerModule calls the source is compiled
\* at most once, every call evaluates exactly the cached bytes, and the
\* cached bytes, once set, never change.
C2_CompiledOncePerProcess ==
    [][ /\ compileCount' <= 1
        /\ \A c \in Callers : call'[c].pc \in {"loaded", "loadErr"} =>
               call'[c].evaluated = compilerScriptBytecode'
        /\ compilerScriptBytecode # Nil =>
               compilerScriptBytecode' = compilerScriptBytecode ]_vars

\* Two loads on distinct engines and a repeated load have evaluated the
\* bytecode of a single compilation.
C2_Witness ==
    /\ compileCount = 1
    /\ compilerScriptBytecode # Nil
    /\ \E c, d \in Callers :
          /\ c # d
          /\ call[c].pc = "loaded" /\ call[d].pc = "loaded"
          /\ call[c].engine # call[d].engine
    /\ calls = MaxCalls

\* C3: when the one-time compilation fails, the call that ran it ends in a
\* panic without returning bytecode, the cache slot stays empty, and the
\* compilation is never run a second time.
C3_CompileFailurePanics ==
    CompileFails(compilerScript) =>
        /\ compileCount <= 1
        /\ compilerScriptBytecode = Nil
        /\ \A c \in Callers : call[c].ran /\ call[c].pc # "compiling" =>
              /\ call[c].pc = "panicked"
              /\ call[c].err = "panic"
              /\ call[c].result = Nil

\* The failing compilation has panicked in one caller, and a later caller has
\* gone through the guard without compiling again.
C3_Witness ==
    /\ CompileFails(compilerScript)
    /\ compileCount = 1
    /\ \E c, d \in Callers :
          /\ c # d
          /\ call[c].pc = "panicked"
          /\ call[d].pc \in {"ret", "returned", "eval", "loaded", "loadErr"}

\* C4: an exception while evaluating the bytecode in one engine is returned
\* as the error of that load only: the step leaves the cache slot, the guard
\* and every other caller untouched, and a load of well-formed bytecode on an
\* engine that can run it succeeds whatever failed before it.
C4_EvalFailureIsPerEngine ==
    [][ /\ \A c \in Callers :
               (call[c].pc = "eval" /\ call'[c].pc = "loadErr") =>
                   /\ call'[c].err = "exception"
                   /\ compilerScriptBytecode' = compilerScriptBytecode
                   /\ once' = once
                   /\ \A d \in Callers \ {c} : call'[d] = call[d]
        /\ \A d \in Callers :
               ( /\ call'[d].pc \in {"loaded", "loadErr"}
                 /\ compilerScript = "valid"
                 /\ call'[d].engine \notin faulty ) => call'[d].pc = "loaded" ]_vars

\* A load failed on one engine, and a load started afterwards on another
\* engine has succeeded.
C4_Witness ==
    \E c, d \in Callers :
        /\ call[c].pc = "loadErr" /\ call[c].err = "exception"
        /\ call[d].pc = "loaded" /\ call[d].failedBefore
        /\ call[d].engine # call[c].engine
        /\ compilerScriptBytecode = Compile(compilerScript)

-----------------------------------------------------------------------------
(* Claims about the Vue SFC pipeline *)

\* The component of the latest main-entry load has a script part, a template
\* part.
WithScript == entry.script.kind = "map" /\ entry.script.content # "nil"
WithTemplate == entry.template.kind = "map" /\ entry.template.code # "nil"

\* The number of statements of a module text that satisfy Test.
CountStmts(contents, Test(_)) ==
    Cardinality({i \in 1..Len(contents) : Test(contents[i])})

\* The latest resolution is the default one (no processor stepped in) of the
\* entry module's import of style block i.
ResolvedStyleImport(i) ==
    /\ entry.status = "ok"
    /\ res.status = "ok"
    /\ res.by = 0
    /\ res.reqPd = entry.pd
    /\ res.reqPath = StyleImportPath(entry.path, i)

\* C5: for a component with n style blocks and every i in 0..n-1, resolving
\* the entry module's style import with index=i leads to the style
\* namespace, and loading the resolved result returns exactly the i-th
\* element of the stored style sequence (a style part, that is, a map the
\* compile service made for a style block).
C5_StyleIndexRoundTrip ==
    \A i \in 0..(Len(entry.styles) - 1) :
        (ResolvedStyleImport(i) /\ entry.styles[i + 1] # NilStyle) =>
            /\ res.namespace = <<"sfc-", "style">>
            /\ res.pd = entry.pd
            /\ out.kind = "style" =>
                  /\ out.status = "ok"
                  /\ out.contents = heap[entry.pd].styles[i + 1].code
                  /\ out.contents = StyleCode(i)

\* The eleventh block of a long style list (index 10, two digits in the
\* import path) has been resolved and loaded.
C5_Witness ==
    /\ ResolvedStyleImport(10)
    /\ Len(entry.styles) > 10
    /\ out.kind = "style" /\ out.status = "ok"
    /\ out.contents = StyleCode(10)

\* C6: the entry module synthesized for a component with a script, a template
\* and n style blocks holds exactly one script import, exactly one import of
\* the render function from the template sub-resource, one file-identity
\* assignment, and exactly n style imports whose index values are
\* 0, 1, ..., n-1 in that order.
C6_SynthesisComplete ==
    (entry.status = "ok" /\ WithScript /\ WithTemplate) =>
        LET text   == entry.contents
            styles == SelectSeq(text, LAMBDA st : st.stmt = "import_side_effect")
        IN  /\ CountStmts(text, LAMBDA st : st.stmt = "import_default") = 1
            /\ CountStmts(text, LAMBDA st :
                   /\ st.stmt = "import_default"
                   /\ st.name = "script"
                   /\ st.from = ScriptImportPath(entry.path)) = 1
            /\ CountStmts(text, LAMBDA st : st.stmt = "import_named") = 1
            /\ CountStmts(text, LAMBDA st :
                   /\ st.stmt = "import_named"
                   /\ st.from = TemplateImportPath(entry.path)) = 1
            /\ CountStmts(text, LAMBDA st :
                   /\ st.stmt = "assign"
                   /\ st.name = "__file"
                   /\ st.value = <<entry.path>>) = 1
            /\ Len(styles) = Len(entry.styles)
            /\ \A i \in 1..Len(styles) :
                   /\ FilePart(styles[i].from) = entry.path
                   /\ QueryGet(RawQuery(styles[i].from), "type") = <<"style">>
                   /\ Atoi(QueryGet(RawQuery(styles[i].from), "index"))
                          = [err |-> FALSE, value |-> i - 1]

\* A component with script, template and two style blocks, one of them
\* scoped, has been synthesized.
C6_Witness ==
    /\ entry.status = "ok"
    /\ WithScript /\ WithTemplate
    /\ Len(entry.styles) = 2
    /\ entry.styles[2].scoped = "true"

\* C7: without a script part (no script, or a script without content) the
\* entry module binds script to an empty object, neither imports nor
\* re-exports the ?type=script sub-resource, and ends with the default export
\* of script.
C7_SynthesisWithoutScript ==
    (entry.status = "ok" /\ ~WithScript) =>
        LET text == entry.contents
        IN  /\ text[1] = Stmt("const_empty_object", "script", <<>>, <<>>)
            /\ CountStmts(text, LAMBDA st : st.stmt = "const_empty_object") = 1
            /\ \A i \in 1..Len(text) :
                   /\ text[i].stmt \notin {"import_default", "export_star"}
                   /\ QueryGet(RawQuery(text[i].from), "type") # <<"script">>
            /\ text[Len(text)] = Stmt("export_default", "script", <<>>, <<>>)

\* An entry module has been synthesized from a script map without content.
C7_Witness ==
    /\ entry.status = "ok"
    /\ entry.script.kind = "map" /\ entry.script.content = "nil"
    /\ Len(entry.contents) > 2

\* A statement that names the given render function.
NamesRender(st, name) ==
    \/ st.name = name
    \/ st.value = <<name>>

\* C8: in SSR mode the entry module imports and assigns ssrRender when a
\* template exists and sets __ssrInlineRender = true; otherwise it imports
\* and assigns render when a template exists and never sets
\* __ssrInlineRender.  The two render names never appear in one module.
C8_SsrNaming ==
    entry.status = "ok" =>
        LET text  == entry.contents
            mine  == IF isSSR THEN "ssrRender" ELSE "render"
            other == IF isSSR THEN "render" ELSE "ssrRender"
        IN  /\ WithTemplate =>
                  /\ \E i \in 1..Len(text) :
                        text[i] = Stmt("import_named", mine,
                                       TemplateImportPath(entry.path), <<>>)
                  /\ \E i \in 1..Len(text) :
                        text[i] = Stmt("assign", mine, <<>>, <<mine>>)
            /\ \A i \in 1..Len(text) : ~NamesRender(text[i], other)
            /\ isSSR <=> \E i \in 1..Len(text) :
                            text[i] = Stmt("assign", "__ssrInlineRender", <<>>, <<"true">>)
            /\ ~isSSR => \A i \in 1..Len(text) : text[i].name # "__ssrInlineRender"

\* An SSR build has synthesized a module for a component with a template.
C8_Witness ==
    /\ isSSR
    /\ entry.status = "ok"
    /\ WithTemplate

\* C9: the entry module sets script.__scopeId exactly when some style block
\* has scoped = true, and the value is "data-v-" followed by the hash of the
\* source of this load (the id the load also stores in its plugin data).
C9_ScopeId ==
    entry.status = "ok" =>
        LET text == entry.contents
        IN  /\ (\E i \in 1..Len(text) : text[i].name = "__scopeId")
                  <=> (\E j \in 1..Len(entry.styles) : entry.styles[j].scoped = "true")
            /\ \A i \in 1..Len(text) : text[i].name = "__scopeId" =>
                  /\ text[i] = Stmt("assign", "__scopeId", <<>>,
                                    <<"data-v-">> \o generateHashId(entry.source))
                  /\ text[i].value = heap[entry.pd].id

\* A module whose second style block is the scoped one carries the scope id.
C9_Witness ==
    /\ entry.status = "ok"
    /\ Len(entry.styles) = 2
    /\ entry.styles[1].scoped = "false" /\ entry.styles[2].scoped = "true"
    /\ \E i \in 1..Len(entry.contents) : entry.contents[i].name = "__scopeId"

\* C10: within one resolve request the processors are invoked in
\* registration order; processor k is invoked only if every earlier one
\* returned (nil, nil); the first non-nil result is the resolution and an
\* error aborts the request, and in both cases no later processor is invoked.
C10_ResolveProcessorChain ==
    (res.status # "none" /\ res.err # "tsconfig") =>
        LET m == Len(res.invoked)
        IN  /\ m <= onVueResolveProcessors
            /\ Len(res.returns) = m
            /\ \A k \in 1..m : res.invoked[k] = k
            /\ \A k \in 1..(m - 1) : res.returns[k] = "nil"
            /\ (m < onVueResolveProcessors) => res.returns[m] # "nil"
            /\ (m > 0 /\ res.returns[m] = "result") =>
                  res.status = "ok" /\ res.by = m
            /\ (m > 0 /\ res.returns[m] = "err") =>
                  res.status = "error" /\ res.err = "processor" /\ res.path = <<>>
            /\ (m = 0 \/ res.returns[m] = "nil") =>
                  res.status = "ok" /\ res.by = 0

\* With two processors registered, the first returned nil and the second a
\* result, which became the resolution.
C10_Witness ==
    /\ onVueResolveProcessors = 2
    /\ res.invoked = <<1, 2>>
    /\ res.returns = <<"nil", "result">>
    /\ res.status = "ok" /\ res.by = 2

-----------------------------------------------------------------------------
(* Claims about the loaders, the plugin's construction and the bridge *)

\* C11: readSassSource invokes the Sass load processors in registration
\* order; the first that returns non-empty content wins and no later one is
\* invoked; when every processor returns the empty string, or none is
\* registered, the disk content is returned; an invoked processor's error
\* fails the load with that error and the disk is not read.
C11_SassProcessorChain ==
    sass.status # "none" =>
        LET n == Len(sass.returns)
            m == sass.invoked
            Stops(k) == \/ sass.returns[k].err = "error"
                        \/ sass.returns[k].content # "empty"
        IN  /\ m <= n
            /\ \A k \in 1..(m - 1) : ~Stops(k)
            /\ m < n => (m >= 1 /\ Stops(m))
            /\ (m >= 1 /\ sass.returns[m].err = "error") =>
                   /\ sass.status = "error"
                   /\ sass.errText = "sass processor failed"
                   /\ sass.errFile = sass.path
                   /\ ~sass.diskRead
                   /\ sass.requests = <<>>
            /\ (m >= 1 /\ sass.returns[m].err = "nil"
                       /\ sass.returns[m].content # "empty") =>
                   /\ sass.source = SassContentOf(m)
                   /\ sass.source # <<>>
                   /\ ~sass.diskRead
                   /\ Len(sass.requests) = 1
                   /\ sass.requests[1].data = SassContentOf(m)
            /\ (\A k \in 1..n : ~Stops(k)) =>
                   /\ m = n
                   /\ sass.diskRead
                   /\ sass.disk.err = "nil" =>
                          /\ sass.source = sass.disk.data
                          /\ Len(sass.requests) = 1
                          /\ sass.requests[1].data = sass.disk.data
                   /\ sass.disk.err = "error" =>
                          /\ sass.status = "error"
                          /\ sass.errText = "failed to read sass file"
                          /\ sass.requests = <<>>

\* With two processors registered, the first returned the empty string and
\* the second's content was compiled.
C11_Witness ==
    /\ sass.status = "ok"
    /\ Len(sass.returns) = 2
    /\ sass.returns[1] = [content |-> "empty", err |-> "nil"]
    /\ sass.invoked = 2
    /\ sass.source = SassContentOf(2)
    /\ ~sass.diskRead

\* C12: readVueSource reads the disk first, then runs every Vue load
\* processor in registration order, each on the previous one's output (the
\* first on the CRLF-normalized disk content); the result is the last
\* processor's output even when it is empty; the first processor error
\* aborts the chain and no source is returned.
C12_VueProcessorChain ==
    vueSource.status # "none" =>
        LET o  == vueSource.outcomes
            n  == Len(o)
            rc == vueSource.received
            m  == Len(rc)
            normalized == NormalizeLineEndings(vueSource.disk.data)
            Out(k) == VueProcessorOutput(o[k], k, rc[k])
        IN  /\ vueSource.disk.err = "error" =>
                   /\ vueSource.status = "error"
                   /\ m = 0
                   /\ vueSource.source = <<>>
            /\ vueSource.disk.err = "nil" =>
                   /\ m <= n
                   /\ \A i \in 1..Len(normalized) : normalized[i] # "CRLF"
                   /\ m >= 1 => rc[1] = normalized
                   /\ \A k \in 1..(m - 1) : o[k] # "error" /\ rc[k + 1] = Out(k)
                   /\ m < n => (m >= 1 /\ o[m] = "error")
                   /\ (m >= 1 /\ o[m] = "error") =>
                          /\ vueSource.status = "error"
                          /\ vueSource.err = <<"processor", m>>
                          /\ vueSource.source = <<>>
                   /\ (\A k \in 1..n : o[k] # "error") =>
                          /\ m = n
                          /\ vueSource.status = "ok"
                          /\ vueSource.source =
                                 IF n = 0 THEN normalized ELSE Out(n)
                          /\ (n >= 1 /\ o[n] = "empty") => vueSource.source = <<>>

\* Two processors ran on a file with text: the second received the first's
\* output and returned the empty string, which is the result.
C12_Witness ==
    /\ vueSource.status = "ok"
    /\ vueSource.disk.data # <<>>
    /\ vueSource.outcomes = <<"append", "empty">>
    /\ Len(vueSource.received) = 2
    /\ vueSource.received[2] # vueSource.received[1]
    /\ vueSource.source = <<>>

\* C16: compileSass reports exactly one of three failures per failed call:
\* "sass compilation service failed" for an Execute error, "invalid response
\* from sass compilation service" for a result that is no map, "failed to
\* extract CSS from compilation result" for a map without a string css
\* field; the CSS is empty on failure and the css field on success.
C16_CompileSassFailures ==
    (sass.status # "none" /\ sass.requests # <<>>) =>
        LET r == sass.resp
        IN  /\ r.kind = "error" =>
                   /\ sass.errText = "sass compilation service failed"
                   /\ sass.css = <<>> /\ sass.status = "error"
            /\ r.kind = "notmap" =>
                   /\ sass.errText = "invalid response from sass compilation service"
                   /\ sass.css = <<>> /\ sass.status = "error"
            /\ (r.kind = "map" /\ r.css # "string") =>
                   /\ sass.errText = "failed to extract CSS from compilation result"
                   /\ sass.css = <<>> /\ sass.status = "error"
            /\ (r.kind = "map" /\ r.css = "string") =>
                   /\ sass.status = "ok"
                   /\ sass.errText = ""
                   /\ sass.css = r.text

\* The service answered with a map whose css field is no string.
C16_Witness ==
    /\ sass.status = "error"
    /\ sass.requests # <<>>
    /\ sass.resp.kind = "map" /\ sass.resp.css = "number"
    /\ sass.errText = "failed to extract CSS from compilation result"

C18_NewPlugin ==
    plugin.status # "none" =>
        /\ plugin.lastExecutor = "nil" =>
               /\ plugin.status = "panic"
               /\ plugin.msg = "jsExecutor is required, please set it using WithJsExecutor()"
        /\ plugin.lastExecutor # "nil" =>
               /\ plugin.status = "ok"
               /\ plugin.name = IF plugin.lastName = "" THEN "vue-plugin"
                                ELSE plugin.lastName

\* A plugin was made from options that set an executor and a name.
C18_Witness ==
    /\ plugin.status = "ok"
    /\ plugin.lastName = "b"
    /\ plugin.name = "b"

\* What the log holds for one chain.
LogOf(chain) == SelectSeq(build.log, LAMBDA e : e[1] = chain)

\* The chain ran its processors in registration order up to the first error,
\* which is among the build's errors.
ChainRanInOrder(chain, returns) ==
    LET ran == LogOf(chain)
        n   == Len(returns)
        m   == Len(ran)
    IN  /\ m <= n
        /\ \A i \in 1..m : ran[i] = <<chain, i>>
        /\ \A k \in 1..(m - 1) : returns[k] = "nil"
        /\ m < n => (m >= 1 /\ returns[m] = "error")
        /\ (m >= 1 /\ returns[m] = "error") =>
               \E i \in 1..Len(build.errors) : build.errors[i] = <<chain, m>>
        /\ (\A k \in 1..n : returns[k] = "nil") =>
               /\ m = n
               /\ \A i \in 1..Len(build.errors) : build.errors[i][1] # chain

\* C19: in one build all start processors run in registration order before
\* any end processor, and end processors run in registration order; in
\* either chain the first error stops the chain and is a build error.
C19_LifecycleChains ==
    /\ \A i, j \in 1..Len(build.log) :
           (build.log[i][1] = "end" /\ build.log[j][1] = "start") => j < i
    /\ build.phase \in {"started", "startFailed", "ended"} =>
           ChainRanInOrder("start", build.startReturns)
    /\ build.phase = "ended" => ChainRanInOrder("end", build.endReturns)
    /\ build.phase = "setup" => build.log = <<>>

\* Of two start processors the first failed and the second was not invoked;
\* the build has ended.
C19_Witness ==
    /\ build.phase = "ended"
    /\ Len(build.startReturns) = 2
    /\ build.startReturns[1] = "error"
    /\ build.log = << <<"start", 1>> >>
    /\ build.errors = << <<"start", 1>> >>

-----------------------------------------------------------------------------
(* Claims about the errors of the Vue pipeline *)

\* C13: when the compile service returns an error for a component file, the
\* main-entry load returns a diagnostic that contains "Vue SFC compilation
\* failed" and is located at that file's path, returns no module contents
\* and no plugin data, and does not crash.
C13_CompileErrorDiagnostic ==
    (entry.status # "none" /\ entry.resp.kind = "error") =>
        /\ entry.status = "error"
        /\ entry.errText = "Vue SFC compilation failed"
        /\ entry.errFile = entry.path
        /\ entry.errFile \in VuePaths
        /\ entry.contents = <<>>
        /\ entry.pd = NilRef
        /\ heap = EmptyHeap

\* The compile service returned an error for /proj/Card.vue.
C13_Witness ==
    /\ entry.status = "error"
    /\ entry.resp.kind = "error"
    /\ entry.path = "/proj/Card.vue"
    /\ entry.errFile = "/proj/Card.vue"

\* The answer of the compile service is malformed: no map, or a map with a
\* script, template or styles field of the wrong shape.
Malformed(resp) ==
    \/ resp.kind = "notmap"
    \/ /\ resp.kind = "map"
       /\ \/ resp.script.kind = "string"
          \/ resp.template.kind = "string"
          \/ resp.stylesKind # "list"
          \/ \E i \in 1..Len(resp.styles) : resp.styles[i].scoped = "notmap"

\* C14: every malformed compile-service response is reported by the
\* main-entry load as a file-scoped diagnostic and never as a crash: a result
\* that is no map, and a map whose script, template or styles field has the
\* wrong shape.
C14_MalformedResponseDiagnostic ==
    (entry.status # "none" /\ Malformed(entry.resp)) =>
        /\ entry.status = "error"
        /\ entry.errText # ""
        /\ entry.errFile = entry.path

\* The index a style load reads from its path, and the style parts stored in
\* the plugin data it is given.
LoadedStyleIndex == Atoi(QueryGet(RawQuery(res.path), "index")).value
StoredStyles == IF res.pd = NilRef THEN <<>> ELSE heap[res.pd].styles

\* C15: a style sub-resource load whose index is outside 0..n-1 for the n
\* stored style parts ends in a file-scoped load error; it never serves
\* another style part and never crashes the handler.
C15_StyleIndexOutOfRange ==
    (out.kind = "style" /\ Len(StoredStyles) > 0
                        /\ LoadedStyleIndex >= Len(StoredStyles)) =>
        /\ out.status = "error"
        /\ out.contents = <<>>

-----------------------------------------------------------------------------
(* Part 4: concurrent main-entry loads *)

\* esbuild runs the OnLoad callback of each component file on a goroutine of
\* its own.  Everything the callback works with is a local of that call:
\* source, jsResponse, script, template, styles, pluginData.
IdleLoad == [pc |-> "idle", source |-> "", result |-> [kind |-> "none"],
             pd |-> 0]

\* What the compile service answers to a request for a file's source: an
\* error, or the parts compiled from that source, with some number of style
\* parts.
LoadResponses(path, source) ==
    {[kind |-> "error"]}
    \cup [kind : {"map"}, file : {path}, source : {source},
          styles : 0..MaxStyles]

InitLoads ==
    /\ loads = [f \in VuePaths |-> IdleLoad]
    /\ pdHeap = <<>>
    /\ earlier = <<>>
    /\ sasslocation = Undefined
    /\ render = IdleRender
    /\ opts = [name |-> "idle"]
    /\ plugin = [status |-> "idle"]
    /\ build = [phase |-> "idle"]
    /\ sass = [status |-> "idle"]
    /\ vueSource = [status |-> "idle"]
    /\ fsCall = [status |-> "idle"]
    /\ isSSR = FALSE
    /\ onVueResolveProcessors = 0
    /\ heap = <<>>
    /\ entry = [status |-> "idle"]
    /\ res = [status |-> "idle"]
    /\ out = [kind |-> "idle"]
    /\ compilerScript = "valid"
    /\ once = [done |-> FALSE, locked |-> FALSE]
    /\ compilerScriptBytecode = Nil
    /\ call = [c \in Callers |-> IdleCall]
    /\ compileCount = 0
    /\ faulty = {}
    /\ alive = TRUE
    /\ calls = 0

\* Step 1 of the callback for file f: source, err := readVueSource(...).
LoadReadSource(f, source) ==
    /\ loads[f].pc = "idle"
    /\ loads' = [loads EXCEPT ![f] = [@ EXCEPT !.pc = "read", !.source = source]]
    /\ pdHeap' = pdHeap
    /\ UNCHANGED <<cacheVars, vueVars, hostVars, subVars, guestVars>>

\* Steps 2 and 3: the request carries this call's source; the answer is kept
\* in the local jsResponse.  An error ends the callback.
LoadCompile(f, resp) ==
    /\ loads[f].pc = "read"
    /\ resp \in LoadResponses(f, loads[f].source)
    /\ loads' = [loads EXCEPT ![f] =
                     [@ EXCEPT !.pc = IF resp.kind = "error" THEN "error"
                                      ELSE "compiled",
                               !.result = resp]]
    /\ pdHeap' = pdHeap
    /\ UNCHANGED <<cacheVars, vueVars, hostVars, subVars, guestVars>>

\* Variant: the loads fill one map, made by the first of them.
LoadMakePluginData_OneMap(f) ==
    /\ loads[f].pc = "compiled"
    /\ pdHeap' = IF pdHeap = <<>>
                    THEN <<[id |-> DataId(loads[f].source),
                            parts |-> loads[f].result, writers |-> {f}]>>
                    ELSE <<[id |-> DataId(loads[f].source),
                            parts |-> loads[f].result,
                            writers |-> pdHeap[1].writers \cup {f}]>>
    /\ loads' = [loads EXCEPT ![f] = [@ EXCEPT !.pc = "done", !.pd = 1]]
    /\ UNCHANGED <<cacheVars, vueVars, hostVars, subVars, guestVars>>

\* Steps 4 to 7: the parts are taken from the local answer and put into a
\* map made by this call (pluginData := map[string]interface{}{...}), which
\* the callback returns.
LoadMakePluginData(f) ==
    /\ loads[f].pc = "compiled"
    /\ pdHeap' = Append(pdHeap, [id |-> DataId(loads[f].source),
                                 parts |-> loads[f].result,
                                 writers |-> {f}])
    /\ loads' = [loads EXCEPT ![f] = [@ EXCEPT !.pc = "done",
                                              !.pd = Len(pdHeap) + 1]]
    /\ UNCHANGED <<cacheVars, vueVars, hostVars, subVars, guestVars>>

NextLoads ==
    \/ \E f \in VuePaths, source \in Sources : LoadReadSource(f, source)
    \/ \E f \in VuePaths, source \in Sources :
           \E resp \in LoadResponses(f, source) : LoadCompile(f, resp)
    \/ \E f \in VuePaths : LoadMakePluginData(f)

SpecLoads == InitLoads /\ [][NextLoads]_vars

\* C20: under any interleaving of main-entry loads of different component
\* files, each load builds its own plugin data holding the parts compiled
\* from its own file; no load writes the plugin data of another file, and
\* no plugin-data map is shared by the loads.
C20_LoadsShareNothing ==
    /\ \A f \in VuePaths :
           loads[f].pc = "done" =>
               /\ loads[f].pd \in 1..Len(pdHeap)
               /\ pdHeap[loads[f].pd].parts.file = f
               /\ pdHeap[loads[f].pd].parts.source = loads[f].source
               /\ pdHeap[loads[f].pd].id = DataId(loads[f].source)
               /\ pdHeap[loads[f].pd].writers = {f}
               /\ \A g \in VuePaths \ {f} :
                      loads[g].pc = "done" => loads[g].pd # loads[f].pd
    /\ \A r \in 1..Len(pdHeap) :
           \E f \in VuePaths : loads[f].pc = "done" /\ loads[f].pd = r

\* Two files with the same source text (and so the same identity) have been
\* loaded, the load that started last finishing first.
C20_Witness ==
    /\ loads["/proj/App.vue"].pc = "done"
    /\ loads["/proj/Card.vue"].pc = "done"
    /\ loads["/proj/App.vue"].source = loads["/proj/Card.vue"].source
    /\ loads["/proj/App.vue"].pd = 2
    /\ loads["/proj/Card.vue"].pd = 1

-----------------------------------------------------------------------------
(* Part 5: several sub-resources of one component *)

\* The answers of the compile service for a component with a script, a
\* template and any list of style parts.
SubResponses ==
    {r \in CompileResponses :
         /\ r.kind = "map"
         /\ r.script = [kind |-> "map", content |-> "js"]
         /\ r.template.kind = "map" /\ r.template.code # "nil"
         /\ r.stylesKind = "list"}
    \cup {[kind |-> "map", script |-> [kind |-> "map", content |-> "js"],
           template |-> t, styles |-> <<>>, stylesKind |-> "list"] :
              t \in TippedTemplates}

\* The answers of the compile service to the load of a later build: an
\* error, or a component with a script, a template and one style part.
ReloadResponses ==
    {r \in CompileResponses :
         \/ r.kind = "error"
         \/ /\ r.kind = "map"
            /\ r.script = [kind |-> "map", content |-> "js"]
            /\ r.template.kind = "map" /\ r.template.code # "nil"
            /\ r.stylesKind = "list"
            /\ r.styles = <<[code |-> StyleCode(0), scoped |-> "false"]>>}

InitSub ==
    /\ isSSR = FALSE
    /\ onVueResolveProcessors = 0
    /\ heap = EmptyHeap
    /\ entry = NoEntry
    /\ res = NoResolution
    /\ out = NoOut
    /\ earlier = <<>>
    /\ sasslocation = Undefined
    /\ render = IdleRender
    /\ compilerScript = "valid"
    /\ once = [done |-> FALSE, locked |-> FALSE]
    /\ compilerScriptBytecode = Nil
    /\ call = [c \in Callers |-> IdleCall]
    /\ compileCount = 0
    /\ faulty = {}
    /\ alive = TRUE
    /\ calls = 0
    /\ opts = [name |-> "idle"]
    /\ plugin = [status |-> "idle"]
    /\ build = [phase |-> "idle"]
    /\ sass = [status |-> "idle"]
    /\ vueSource = [status |-> "idle"]
    /\ fsCall = [status |-> "idle"]
    /\ loads = <<>>
    /\ pdHeap = <<>>

\* The build loads a component, resolves the imports of its entry module one
\* after the other (each request carries the plugin data of the entry
\* module's load), and loads the resolved style modules.
NextSub ==
    \/ \E source \in Sources, resp \in SubResponses :
           MainEntryLoad("/proj/App.vue", source, resp)
    \/ MainEntryLoad("/proj/App.vue", ReadFailed, NoResponse)
    \/ \E source \in Sources, resp \in ReloadResponses :
           MainEntryReload(source, resp)
    \/ /\ entry.status = "ok"
       /\ \E reqPath \in ImportsOf(entry.contents) :
              Resolve(reqPath, entry.pd, "none", <<>>)
    \/ /\ entry.status = "ok"
       /\ \E reqPath \in ImportsOf(entry.contents) :
              ResolveNext(reqPath, entry.pd, "none", <<>>)
    \/ ScriptLoad
    \/ TemplateLoad
    \/ StyleLoad
    \/ \E k \in 1..MaxResolves : StyleLoadEarlier(k)

SpecSub == InitSub /\ [][NextSub]_vars

-----------------------------------------------------------------------------
(* Claims about the style index and the plugin data *)

\* C21: the style load selects the style part by the index carried in the
\* plugin data it is given, not by the index of its path: two loads given
\* the same plugin-data index return the same style part whatever their
\* paths say.
C21_StyleLoadUsesPluginDataIndex ==
    (out.kind = "style" /\ out.status = "ok" /\ heap[out.given].hasIndex) =>
        LET pluginData == heap[out.given]
        IN  /\ pluginData.index < Len(pluginData.styles)
            /\ out.contents = pluginData.styles[pluginData.index + 1].code

\* C28: each resolution result keeps its own index in its plugin data: a
\* later resolve of index=j does not change the index seen through the
\* plugin data returned earlier for index=i, and no two resolve callbacks
\* write to the same plugin-data map.
C28_ResolutionsKeepTheirIndex ==
    \A k \in 1..Len(earlier) :
        /\ earlier[k].index # -1 =>
               heap[earlier[k].pd].index = earlier[k].index
        /\ (earlier[k].index # -1 /\ res.status = "ok" /\ res.index # -1) =>
               res.pd # earlier[k].pd

-----------------------------------------------------------------------------
(* Claims about the template and script loads *)

\* The string tips of a list, in order.
StringTips(tips) == SelectSeq(tips, LAMBDA t : t.type = "string")

-----------------------------------------------------------------------------
(* Claims about the resolve request *)

\* What the alias substitution may make of a file: the file itself, and
\* /proj/App.vue for @/App.vue.
AliasResults(file) ==
    IF file = "@/App.vue" THEN {"@/App.vue", "/proj/App.vue"} ELSE {file}

\* The absolute path of a file of the model, by cases.
ExpectedAbsolute(file) ==
    CASE file = "@/App.vue" -> "/proj/@/App.vue"
      [] file = "./App.vue" -> "/proj/App.vue"
      [] OTHER -> file

\* C23: a resolve request applies the path aliases, makes the path
\* absolute, runs the resolve processors and only then classifies the
\* namespace: every processor sees the aliased absolute path, the
\* namespace and the plugin data are set only when every processor returned
\* nil, and a failure to parse the aliases ends the request before any
\* processor is invoked.
C23_ResolveOrder ==
    res.status # "none" =>
        /\ res.err = "tsconfig" =>
               /\ res.status = "error"
               /\ res.invoked = <<>> /\ res.seen = <<>>
        /\ res.err # "tsconfig" =>
               /\ res.aliased \in AliasResults(FilePart(res.reqPath))
               /\ res.seen = <<ExpectedAbsolute(res.aliased)>>
                                  \o Tail(res.reqPath)
               /\ Len(res.invoked) = Len(res.returns)
        /\ (res.status = "ok" /\ res.by = 0) =>
               /\ res.path = res.seen
               /\ res.namespace = NamespaceOf(res.seen)
               /\ \A i \in 1..Len(res.returns) : res.returns[i] = "nil"
        /\ res.by # 0 => res.pd = NilRef /\ res.index = -1

\* Two processors saw the aliased path of "@/App.vue" and returned nil.
C23_Witness ==
    /\ res.status = "ok"
    /\ res.reqPath = <<"@/App.vue">> /\ res.aliased = "/proj/App.vue"
    /\ res.invoked = <<1, 2>>
    /\ res.seen = <<"/proj/App.vue">>
    /\ res.namespace = <<"file">>

\* The namespaces a load handler is registered for, and "file".
LoadNamespaces ==
    {<<"file">>, <<"sfc-", "script">>, <<"sfc-", "template">>,
     <<"sfc-", "style">>}

\* C24: when no resolve processor returns a result the namespace of the
\* resolution is "file", sfc-script, sfc-template or sfc-style, never a
\* namespace without a load handler.
C24_NamespaceHasHandler ==
    (res.status = "ok" /\ res.by = 0) => res.namespace \in LoadNamespaces

-----------------------------------------------------------------------------
(* Claims about the requests to the compile service *)

\* C25: every main-entry load that read its source issues exactly one
\* request, to the service sfc.vue.compileSFC for that source, and builds
\* new plugin data from the answer to it, also when the file was loaded
\* before; the script, template and style loads issue no request and serve
\* only what that plugin data stores.
C25_OneRequestPerLoad ==
    /\ entry.status = "readerror" =>
           entry.requests = <<>> /\ entry.pd = NilRef
    /\ entry.status \notin {"none", "readerror"} =>
           /\ Len(entry.requests) = 1
           /\ entry.requests[1].service = "sfc.vue.compileSFC"
           /\ entry.requests[1].path = entry.path
           /\ entry.requests[1].source = entry.source
    /\ entry.status = "ok" =>
           /\ heap[entry.pd].id = DataId(entry.source)
           /\ heap[entry.pd].script = entry.resp.script
           /\ heap[entry.pd].template = ExtractTemplate(entry.resp)
           /\ heap[entry.pd].styles = ExtractStyles(entry.resp)
           /\ res.status = "none" => ~heap[entry.pd].hasIndex
    /\ out.kind # "none" =>
           /\ out.requests = <<>>
           /\ out.status = "ok" =>
                  /\ out.given = entry.pd
                  /\ CASE out.kind = "script" ->
                            out.contents = <<entry.resp.script.content>>
                       [] out.kind = "template" ->
                            out.contents = <<entry.resp.template.code>>
                       [] OTHER ->
                            \E i \in 1..Len(entry.resp.styles) :
                                out.contents = entry.resp.styles[i].code

\* The file was loaded a second time and the script of that load served.
C25_Witness ==
    /\ entry.nth = 2 /\ entry.status = "ok"
    /\ Len(entry.requests) = 1
    /\ out.kind = "script" /\ out.status = "ok"

-----------------------------------------------------------------------------
(* Claims about styles whose scoped value is no boolean *)

\* C26: whenever some style part of the component has a scoped value that
\* is not a boolean, wherever it stands in the sequence,
\* generateEntryContents returns the error "failed to execute Vue entry
\* template" and no module text, and the main-entry load reports a
\* diagnostic located in the file.
C26_NonBooleanScopedFails ==
    (/\ entry.status \in {"ok", "error"}
     /\ entry.resp.kind = "map"
     /\ \E i \in 1..Len(entry.styles) :
            entry.styles[i].scoped \notin {"true", "false"}) =>
        /\ entry.status = "error"
        /\ entry.errText = "Failed to generate Vue entry contents"
        /\ entry.errFile = entry.path
        /\ entry.contents = <<>>

-----------------------------------------------------------------------------
(* Claims about sub-resources without an owner *)

\* The plugin data a load was given lacks the part the load asks for.
LacksPart ==
    LET pluginData == IF out.given = NilRef THEN EmptyPluginData
                      ELSE heap[out.given]
    IN  CASE out.kind = "script"   -> ~pluginData.hasScript
          [] out.kind = "template" -> ~pluginData.hasTemplate
          [] out.kind = "style"    -> ~pluginData.hasStyles
          [] OTHER -> FALSE

\* C27: a script, template or style sub-resource is served only from the
\* plugin data of a main-entry load that compiled its owner before; a load
\* whose plugin data lacks the requested part ends in an error result: it
\* serves no content and does not crash the handler.
C27_SubResourceNeedsOwner ==
    /\ (out.kind # "none" /\ out.status = "ok") =>
           entry.status = "ok" /\ out.given = entry.pd
    /\ LacksPart => out.status = "error" /\ out.contents = <<>>

-----------------------------------------------------------------------------
(* Claims about the calls after a failed compilation *)

\* C29: once the one-time compilation has failed, every call of
\* getCompilerScriptBytecode fails, those blocked on the guard during the
\* failing compilation included: no caller returns from it with an empty
\* bytecode or evaluates one, and the compilation is not run again.
C29_NoEmptyBytecodeAfterFailure ==
    CompileFails(compilerScript) =>
        /\ compileCount <= 1
        /\ \A c \in Callers :
               /\ ~HasReturned(c)
               /\ call[c].pc \in {"loaded", "loadErr"} =>
                      call[c].evaluated # Nil

-----------------------------------------------------------------------------
(* Part 6: the guest-side Sass module (sass.ts) *)

MaxRenders == 2
MaxImports == 2

\* toPosixPath: path.replace(/\\/g, '/')
toPosixPath(path) ==
    [i \in 1..Len(path) |-> IF path[i] = "\\" THEN "/" ELSE path[i]]

\* The sasslocation values a caller passes: the directory of the Sass file
\* as the host's filepath.Dir gives it, with slashes or with backslashes,
\* or nothing.
SassLocationArgs ==
    {Str(<<"/", "proj", "/", "styles">>),
     Str(<<"C:", "\\", "proj", "\\", "styles">>),
     Str(<<"C:", "\\", "proj", "/", "styles">>),
     Undefined}

RenderOptions == [sasslocation : SassLocationArgs, data : {"scss-a", "scss-b"}]

\* The URLs of the @use and @import rules the compiler hands to the
\* importer: relative, absolute, or with the file scheme.
ImportUrls == {<<"vars">>, <<"/", "lib", "/", "mixins">>,
               <<"file://", "/", "lib", "/", "mixins">>}

\* isAbsolute of path-browserify
isAbsolute(path) == path # <<>> /\ Head(path) = "/"

\* join(location, urlString) of path-browserify
join(location, urlString) == location \o <<"/">> \o urlString

InitGuest ==
    /\ sasslocation = Undefined
    /\ render = IdleRender
    /\ earlier = <<>>
    /\ isSSR = FALSE
    /\ onVueResolveProcessors = 0
    /\ heap = <<>>
    /\ entry = [status |-> "idle"]
    /\ res = [status |-> "idle"]
    /\ out = [kind |-> "idle"]
    /\ compilerScript = "valid"
    /\ once = [done |-> FALSE, locked |-> FALSE]
    /\ compilerScriptBytecode = Nil
    /\ call = [c \in Callers |-> IdleCall]
    /\ compileCount = 0
    /\ faulty = {}
    /\ alive = TRUE
    /\ calls = 0
    /\ opts = [name |-> "idle"]
    /\ plugin = [status |-> "idle"]
    /\ build = [phase |-> "idle"]
    /\ sass = [status |-> "idle"]
    /\ vueSource = [status |-> "idle"]
    /\ fsCall = [status |-> "idle"]
    /\ loads = <<>>
    /\ pdHeap = <<>>

\* renderSync is entered: the first statement of the try block assigns the
\* module variable.  With no sasslocation in the options toPosixPath throws
\* before the assignment, and the finally block ends the call.  The engine
\* runs one call at a time.
RenderStart(options) ==
    /\ render.pc \in {"idle", "returned", "threw"}
    /\ render.count < MaxRenders
    /\ IF options.sasslocation.def
          THEN /\ sasslocation' = Str(toPosixPath(options.sasslocation.text))
               /\ render' = [pc |-> "compiling", options |-> options,
                             canon |-> <<>>, count |-> render.count + 1]
          ELSE /\ sasslocation' = Undefined
               /\ render' = [pc |-> "threw", options |-> options,
                             canon |-> <<>>, count |-> render.count + 1]
    /\ UNCHANGED <<cacheVars, vueVars, hostVars, loadVars, subVars>>

\* Variant: an exception leaves the module variable as it is.
RenderThrow_KeepLocation ==
    /\ render.pc = "compiling"
    /\ render' = [render EXCEPT !.pc = "threw"]
    /\ sasslocation' = sasslocation
    /\ UNCHANGED <<cacheVars, vueVars, hostVars, loadVars, subVars>>

\* compileString, or the importer it called, threw: the catch block throws
\* the exception again and the finally block clears the module variable.
RenderThrow ==
    /\ render.pc = "compiling"
    /\ render' = [render EXCEPT !.pc = "threw"]
    /\ sasslocation' = Undefined
    /\ UNCHANGED <<cacheVars, vueVars, hostVars, loadVars, subVars>>

\* sassImporter.canonicalize, called by compileString for an import of the
\* source: a URL without the file scheme that is not absolute is joined to
\* the module variable as it is now.  found: whether findFile finds a file
\* for the path; if not it throws, which ends the call.
Canonicalize(urlString, found) ==
    /\ render.pc = "compiling"
    /\ Len(render.canon) < MaxImports
    /\ LET url      == toPosixPath(urlString)
           location == sasslocation
           path     == IF Head(url) # "file://"
                         THEN IF isAbsolute(url) THEN url
                              ELSE join(location.text, url)
                         ELSE Tail(url)
           seen     == [url |-> urlString, location |-> location,
                        path |-> path, found |-> found]
       IN  IF found
              THEN /\ render' = [render EXCEPT !.canon = Append(@, seen)]
                   /\ sasslocation' = sasslocation
              ELSE /\ render' = [render EXCEPT !.canon = Append(@, seen),
                                               !.pc = "threw"]
                   /\ sasslocation' = Undefined
    /\ UNCHANGED <<cacheVars, vueVars, hostVars, loadVars, subVars>>

\* compileString returned: renderSync returns the result and the finally
\* block clears the module variable.
RenderReturn ==
    /\ render.pc = "compiling"
    /\ render' = [render EXCEPT !.pc = "returned"]
    /\ sasslocation' = Undefined
    /\ UNCHANGED <<cacheVars, vueVars, hostVars, loadVars, subVars>>

NextGuest ==
    \/ \E options \in RenderOptions : RenderStart(options)
    \/ \E urlString \in ImportUrls, found \in BOOLEAN :
           Canonicalize(urlString, found)
    \/ RenderReturn
    \/ RenderThrow

SpecGuest == InitGuest /\ [][NextGuest]_vars

\* A renderSync call is running.
Rendering == render.pc = "compiling"

\* C30 as stated: the module variable sasslocation is undefined before the
\* first renderSync call, equals the sasslocation argument of the running
\* call during the call, and is undefined again after every call, whether
\* it returned or threw.
C30_SasslocationIsTheArgument ==
    /\ render.count = 0 => sasslocation = Undefined
    /\ Rendering => sasslocation = render.options.sasslocation
    /\ ~Rendering => sasslocation = Undefined

\* C30, amended: during the call the module variable is the sasslocation
\* argument with every backslash replaced by a slash, and every import
\* resolved during the call read that value; before the first call and
\* after every call, returned or thrown, it is undefined.
C30_SasslocationIsThePosixArgument ==
    /\ render.count = 0 => sasslocation = Undefined
    /\ Rendering =>
           LET arg == render.options.sasslocation.text
           IN  /\ sasslocation.def
               /\ Len(sasslocation.text) = Len(arg)
               /\ \A i \in 1..Len(arg) :
                      sasslocation.text[i] =
                          IF arg[i] = "\\" THEN "/" ELSE arg[i]
    /\ \A k \in 1..Len(render.canon) :
           /\ render.canon[k].location.def
           /\ \A i \in 1..Len(render.canon[k].location.text) :
                  render.canon[k].location.text[i] # "\\"
    /\ ~Rendering => sasslocation = Undefined

\* In a second call, made after a call that ended, a relative import was
\* resolved against the slash form of a sasslocation given with
\* backslashes.
C30_Witness ==
    /\ render.count = 2
    /\ Rendering
    /\ render.options.sasslocation = Str(<<"C:", "\\", "proj", "\\", "styles">>)
    /\ sasslocation = Str(<<"C:", "/", "proj", "/", "styles">>)
    /\ Len(render.canon) = 1
    /\ render.canon[1].path = <<"C:", "/", "proj", "/", "styles", "/", "vars">>

====
